---- MODULE Spec2Model ----
(***************************************************************************)
(* Model of the expert-network ingestion backend: the Normalizer           *)
(* (change_detection.py), the Similarity Engine and the Merge Resolver      *)
(* (expert_dedupe.py), the Ingestion Orchestrator (auto_ingestion.py) and   *)
(* the Batch Scan Coordinator (outlook_scanning.py).                        *)
(*                                                                         *)
(* Text values are sequences of one-character strings, so that the         *)
(* normalisations, the SQL LIKE match and the Levenshtein distance are      *)
(* computed character by character as the code computes them.  None is the  *)
(* Python None / SQL NULL.  Scores are exact fractions [num, den].          *)
(* Database statements are assumed to succeed; the collaborators (inbox,    *)
(* extraction) may fail.                                                    *)
(***************************************************************************)
EXTENDS Integers, Sequences, FiniteSets, TLC

\* Python None / SQL NULL; a one-element sequence, so that it compares with texts
None == <<"<None>">>

(***************************************************************************)
(* Characters                                                              *)
(***************************************************************************)
UpperChars == <<"A","B","C","D","E","F","G","H","I","J","K","L","M",
                "N","O","P","Q","R","S","T","U","V","W","X","Y","Z">>

LowerChars == <<"a","b","c","d","e","f","g","h","i","j","k","l","m",
                "n","o","p","q","r","s","t","u","v","w","x","y","z">>

\* \w of the regular expressions: letters, digits and underscore
WordChars ==
    { UpperChars[i] : i \in 1..26 } \cup { LowerChars[i] : i \in 1..26 }
    \cup {"0","1","2","3","4","5","6","7","8","9"} \cup {"_"}

LowerTable ==
    [c \in { UpperChars[i] : i \in 1..26 } |->
        LowerChars[CHOOSE i \in 1..26 : c = UpperChars[i]]]

\* str.lower()
Lower(s) ==
    LET lower(table) ==
            [i \in 1..Len(s) |-> IF s[i] \in DOMAIN table THEN table[s[i]] ELSE s[i]]
    IN lower(LowerTable)

RECURSIVE LStrip(_)
LStrip(s) == IF s # <<>> /\ Head(s) = " " THEN LStrip(Tail(s)) ELSE s

RECURSIVE RStrip(_)
RStrip(s) ==
    IF s # <<>> /\ s[Len(s)] = " " THEN RStrip(SubSeq(s, 1, Len(s) - 1)) ELSE s

\* str.strip()
Strip(s) == RStrip(LStrip(s))

\* re.sub(r'\s+', ' ', s)
RECURSIVE CollapseSpaces(_)
CollapseSpaces(s) ==
    IF s = <<>> THEN <<>>
    ELSE IF Head(s) = " "
         THEN <<" ">> \o CollapseSpaces(LStrip(s))
         ELSE <<Head(s)>> \o CollapseSpaces(Tail(s))

\* re.sub(r'[^\w\s]', '', s)
RECURSIVE RemovePunctuation(_)
RemovePunctuation(s) ==
    IF s = <<>> THEN <<>>
    ELSE IF Head(s) \in WordChars \/ Head(s) = " "
         THEN <<Head(s)>> \o RemovePunctuation(Tail(s))
         ELSE RemovePunctuation(Tail(s))

\* needle in hay
Contains(hay, needle) ==
    \E i \in 0..Len(hay) :
        /\ i + Len(needle) <= Len(hay)
        /\ SubSeq(hay, i + 1, i + Len(needle)) = needle

Min2(a, b) == IF a <= b THEN a ELSE b

(***************************************************************************)
(* expert_dedupe.py: name and employer normalisation, string similarity    *)
(***************************************************************************)
normalize_name(name) ==
    RemovePunctuation(CollapseSpaces(Strip(Lower(name))))

\* the legal-entity words removed by normalize_employer
EmployerSuffixes ==
    { <<"i","n","c">>, <<"l","l","c">>, <<"l","t","d">>, <<"c","o","r","p">>,
      <<"c","o","r","p","o","r","a","t","i","o","n">>,
      <<"c","o","m","p","a","n","y">>, <<"c","o">> }

\* re.sub(r'\b(inc|llc|...|co)\b', '', s): a suffix word is removed where it
\* stands between word boundaries; the spaces around it stay.
RECURSIVE RemoveSuffixWords(_, _)
RemoveSuffixWords(s, prevIsWord) ==
    IF s = <<>> THEN <<>>
    ELSE LET longest(hits) == CHOOSE x \in hits : \A y \in hits : Len(y) <= Len(x)
             removed(hits) ==
                 IF hits # {}
                 THEN RemoveSuffixWords(SubSeq(s, Len(longest(hits)) + 1, Len(s)), TRUE)
                 ELSE <<Head(s)>> \o RemoveSuffixWords(Tail(s), Head(s) \in WordChars)
         IN removed({ w \in EmployerSuffixes :
                        /\ ~prevIsWord
                        /\ Len(w) <= Len(s)
                        /\ SubSeq(s, 1, Len(w)) = w
                        /\ (Len(s) = Len(w) \/ s[Len(w) + 1] \notin WordChars) })

normalize_employer(employer) ==
    Strip(RemoveSuffixWords(
            RemovePunctuation(CollapseSpaces(Strip(Lower(employer)))), FALSE))

\* one row of the dynamic programme of levenshtein_distance: current_row
\* holds the cells computed so far, the next cell is that of s2[j]
RECURSIVE LevRow(_, _, _, _)
LevRow(c1, s2, previous_row, current_row) ==
    LET j == Len(current_row)
    IN IF j > Len(s2) THEN current_row
       ELSE LET insertions    == previous_row[j + 1] + 1
                deletions     == current_row[j] + 1
                substitutions == previous_row[j] + (IF c1 # s2[j] THEN 1 ELSE 0)
            IN LevRow(c1, s2, previous_row,
                      Append(current_row,
                             Min2(insertions, Min2(deletions, substitutions))))

RECURSIVE LevRows(_, _, _, _)
\* the rows for s1[i..], previous_row being the row of s1[1..i-1]
LevRows(s1, s2, previous_row, i) ==
    IF Len(previous_row) = 0 \/ i > Len(s1) THEN previous_row
    ELSE LevRows(s1, s2, LevRow(s1[i], s2, previous_row, <<i>>), i + 1)

levenshtein_distance(a, b) ==
    LET s1 == IF Len(a) < Len(b) THEN b ELSE a
        s2 == IF Len(a) < Len(b) THEN a ELSE b
    IN IF Len(s2) = 0 THEN Len(s1)
       ELSE LevRows(s1, s2, [k \in 1..(Len(s2) + 1) |-> k - 1], 1)[Len(s2) + 1]

Frac(n, d) == [num |-> n, den |-> d]

FracGT(x, y)  == x.num * y.den > y.num * x.den
FracGEQ(x, y) == x.num * y.den >= y.num * x.den

\* variant: the distance is set against the length of the first string
string_similarity_of_first(a, b) ==
    IF a = b THEN Frac(1, 1)
    ELSE IF Len(a) = 0 \/ Len(b) = 0 THEN Frac(0, 1)
    ELSE Frac(Len(a) - levenshtein_distance(a, b), Len(a))

string_similarity(a, b) ==
    IF a = b THEN Frac(1, 1)
    ELSE IF Len(a) = 0 \/ Len(b) = 0 THEN Frac(0, 1)
    ELSE LET m == IF Len(a) >= Len(b) THEN Len(a) ELSE Len(b)
         IN Frac(m - levenshtein_distance(a, b), m)

(***************************************************************************)
(* change_detection.py: the Normalizer                                     *)
(***************************************************************************)
\* UNKNOWN_VALUES, lowercased as normalize_value compares them
UNKNOWN_VALUES ==
    { <<>>,
      <<"t","b","d">>,
      <<"u","n","k","n","o","w","n">>,
      <<"n","/","a">>,
      <<"n","a">>,
      <<"n","o","n","e">>,
      <<"p","e","n","d","i","n","g">>,
      <<"t","o"," ","b","e"," ","d","e","t","e","r","m","i","n","e","d">>,
      <<"t","o"," ","b","e"," ","c","o","n","f","i","r","m","e","d">> }

normalize_value(value) ==
    LET known(normalized) ==
            IF Lower(normalized) \in UNKNOWN_VALUES THEN None
            ELSE IF normalized = <<>> THEN None
            ELSE normalized
    IN IF value = None THEN None
       ELSE known(CollapseSpaces(Strip(value)))

\* the en dash and the em dash are the characters "endash" and "emdash"
RECURSIVE DropListPunct(_)
DropListPunct(s) ==
    IF s # <<>> /\ Head(s) \in {",", ";", ":"} THEN DropListPunct(Tail(s)) ELSE s

\* re.sub(r'[,;:]+\s*', ', ', s)
RECURSIVE NormalizePunct(_)
NormalizePunct(s) ==
    IF s = <<>> THEN <<>>
    ELSE IF Head(s) \in {",", ";", ":"}
         THEN <<",", " ">> \o NormalizePunct(LStrip(DropListPunct(s)))
         ELSE <<Head(s)>> \o NormalizePunct(Tail(s))

normalize_for_comparison(value) ==
    LET dashes(s) == [i \in 1..Len(s) |->
                        IF s[i] \in {"endash", "emdash"} THEN "-" ELSE s[i]]
        compared(normalized) ==
            IF normalized = None THEN None
            ELSE NormalizePunct(dashes(Lower(normalized)))
    IN compared(normalize_value(value))

values_are_equal(old_value, new_value) ==
    LET equal(old_normalized, new_normalized) ==
            IF old_normalized = None /\ new_normalized = None THEN TRUE
            ELSE IF old_normalized = None \/ new_normalized = None THEN FALSE
            ELSE old_normalized = new_normalized
    IN equal(normalize_for_comparison(old_value), normalize_for_comparison(new_value))

is_meaningful_value(value) == normalize_value(value) # None

\* Python truthiness of an Optional[str]
Truthy(v) == v # None /\ v # <<>>

(***************************************************************************)
(* change_detection.py: network-scoped fields                              *)
(***************************************************************************)
RECURSIVE Join(_, _)
\* sep.join(items)
Join(items, sep) ==
    IF items = <<>> THEN <<>>
    ELSE IF Len(items) = 1 THEN items[1]
    ELSE items[1] \o sep \o Join(Tail(items), sep)

RECURSIVE SplitComma(_, _)
\* s.split(','), cur being the piece read so far
SplitComma(s, cur) ==
    IF s = <<>> THEN <<cur>>
    ELSE IF Head(s) = "," THEN <<cur>> \o SplitComma(Tail(s), <<>>)
    ELSE SplitComma(Tail(s), Append(cur, Head(s)))

\* the characters of the model in ASCII order, for sorting and ORDER BY
AsciiOrder ==
    <<" ", "'", ",", "-", ".", "/">> \o
    <<"0","1","2","3","4","5","6","7","8","9">> \o
    <<":", ";">> \o UpperChars \o <<"_">> \o LowerChars \o <<"|", "endash", "emdash">>

CharCodes ==
    LET codes(order) == [c \in { order[i] : i \in 1..Len(order) } |->
                            CHOOSE i \in 1..Len(order) : order[i] = c]
    IN codes(AsciiOrder)

RECURSIVE TextLess(_, _)
\* a < b for Python strings
TextLess(a, b) ==
    IF b = <<>> THEN FALSE
    ELSE IF a = <<>> THEN TRUE
    ELSE IF Head(a) = Head(b) THEN TextLess(Tail(a), Tail(b))
    ELSE LET less(codes) == codes[Head(a)] < codes[Head(b)]
         IN less(CharCodes)

RECURSIVE InsertSorted(_, _)
InsertSorted(x, sorted) ==
    IF sorted = <<>> THEN <<x>>
    ELSE IF TextLess(x, Head(sorted)) THEN <<x>> \o sorted
    ELSE <<Head(sorted)>> \o InsertSorted(x, Tail(sorted))

RECURSIVE SortTexts(_)
\* list.sort() on a list of strings
SortTexts(items) ==
    IF items = <<>> THEN <<>> ELSE InsertSorted(Head(items), SortTexts(Tail(items)))

\* normalize_for_comparison of each item, the falsy results dropped
NormalizedItems(items) ==
    SelectSeq([i \in 1..Len(items) |-> normalize_for_comparison(items[i])],
              LAMBDA norm : Truthy(norm))

normalize_availability_list(availability) ==
    LET joined(normalized) ==
            IF normalized = <<>> THEN None
            ELSE Join(SortTexts(normalized), <<"|">>)
    IN IF availability = None \/ availability = <<>> THEN None
       ELSE joined(NormalizedItems(availability))

availability_changed(existing_availability, new_availability) ==
    LET stripped(parts) == [i \in 1..Len(parts) |-> Strip(parts[i])]
        existing_list ==
            IF Truthy(existing_availability)
            THEN stripped(SplitComma(existing_availability, <<>>))
            ELSE <<>>
        changed(existing_normalized, new_normalized) ==
            IF existing_normalized = None /\ new_normalized = None THEN FALSE
            ELSE existing_normalized # new_normalized
    IN changed(normalize_availability_list(existing_list),
               normalize_availability_list(new_availability))

\* existing_screener is the stored JSON list, read back as the list of its
\* answers; new_screener is the list of answers of the extraction
screener_responses_changed(existing_screener, new_screener) ==
    LET existing_list == IF existing_screener = None THEN <<>> ELSE existing_screener
        new_list      == IF new_screener = None THEN <<>> ELSE new_screener
        changed(existing_normalized, new_normalized) ==
            IF existing_list = <<>> /\ new_list = <<>> THEN FALSE
            ELSE IF Len(new_normalized) > Len(existing_normalized) THEN TRUE
            ELSE existing_normalized # new_normalized
    IN changed(SortTexts(NormalizedItems(existing_list)),
               SortTexts(NormalizedItems(new_list)))

\* display names of format_changed_field; the network suffix is left out
format_changed_field(field_name) ==
    CASE field_name = "canonicalEmployer" -> "employer"
      [] field_name = "canonicalTitle"    -> "title"
      [] field_name = "conflictStatus"    -> "conflict status"
      [] field_name = "conflictId"        -> "conflict ID"
      [] field_name = "status"            -> "status"
      [] field_name = "availability"      -> "availability"
      [] field_name = "screenerResponses" -> "screener responses"
      [] OTHER                            -> field_name

(***************************************************************************)
(* expert_dedupe.py: the Similarity Engine                                 *)
(***************************************************************************)
NoMatch     == [kind |-> "none"]
CompareRaised == [kind |-> "raised"]

DedupeMatch(a, b, score, match_type) ==
    [kind |-> "match", expert_id_a |-> a, expert_id_b |-> b,
     score |-> score, match_type |-> match_type]

\* _compare_experts; expert_a and expert_b are rows with their ids.  The result
\* is a DedupeMatch, NoMatch, or CompareRaised where the code calls .lower()
\* on a title that is None (AttributeError).
compare_experts(expert_a, expert_b) ==
    LET normalized_employer(expert) ==
            IF Truthy(expert.canonicalEmployer)
            THEN normalize_employer(expert.canonicalEmployer) ELSE None
        titles_match(title_a, title_b) ==
            \/ FracGT(string_similarity(title_a, title_b), Frac(7, 10))
            \/ (title_a = <<>> /\ title_b = <<>>)
        decide(exact_name_match, name_similarity, both_employers,
               exact_employer_match, employer_similarity) ==
            LET fuzzy_name_match == FracGT(name_similarity, Frac(85, 100))
                fuzzy_employer_match ==
                    both_employers /\ FracGT(employer_similarity, Frac(8, 10))
            IN IF ~exact_name_match /\ ~fuzzy_name_match THEN NoMatch
               ELSE IF exact_name_match /\ exact_employer_match
               THEN DedupeMatch(expert_a.id, expert_b.id, Frac(95, 100),
                                "strong_name_employer")
               ELSE IF exact_name_match /\ ~both_employers
               THEN IF expert_a.canonicalTitle = None \/ expert_b.canonicalTitle = None
                    THEN CompareRaised
                    ELSE IF titles_match(Lower(expert_a.canonicalTitle),
                                         Lower(expert_b.canonicalTitle))
                    THEN DedupeMatch(expert_a.id, expert_b.id, Frac(65, 100),
                                     "medium_name_roles")
                    ELSE NoMatch
               ELSE IF exact_name_match
               THEN DedupeMatch(expert_a.id, expert_b.id, Frac(75, 100),
                                "medium_name_roles")
               ELSE IF fuzzy_name_match /\ fuzzy_employer_match
               THEN DedupeMatch(expert_a.id, expert_b.id,
                                Frac(6 * name_similarity.num * employer_similarity.num,
                                     10 * name_similarity.den * employer_similarity.den),
                                "fuzzy_name_employer")
               ELSE NoMatch
        compare(normalized_name_a, normalized_employer_a,
                normalized_name_b, normalized_employer_b) ==
            LET both_employers ==
                    Truthy(normalized_employer_a) /\ Truthy(normalized_employer_b)
            IN decide(normalized_name_a = normalized_name_b,
                      string_similarity(normalized_name_a, normalized_name_b),
                      both_employers,
                      both_employers /\ normalized_employer_a = normalized_employer_b,
                      IF both_employers
                      THEN string_similarity(normalized_employer_a, normalized_employer_b)
                      ELSE Frac(0, 1))
    IN compare(normalize_name(expert_a.canonicalName), normalized_employer(expert_a),
               normalize_name(expert_b.canonicalName), normalized_employer(expert_b))

RECURSIVE InsertByScore(_, _)
\* position of m in a list sorted by score descending; equal scores keep
\* their order (list.sort is stable)
InsertByScore(m, sorted) ==
    IF sorted = <<>> THEN <<m>>
    ELSE IF FracGT(m.score, Head(sorted).score) THEN <<m>> \o sorted
    ELSE <<Head(sorted)>> \o InsertByScore(m, Tail(sorted))

RECURSIVE SortByScore(_)
SortByScore(ms) ==
    IF ms = <<>> THEN <<>>
    ELSE LET n == Len(ms)
         IN InsertByScore(ms[n], SortByScore(SubSeq(ms, 1, n - 1)))

\* the loop of find_duplicate_candidates: the result of each comparison in
\* the order of existing_experts, the new expert itself being passed over
CompareAll(new_expert, existing_experts) ==
    [i \in 1..Len(existing_experts) |->
        IF existing_experts[i].id = new_expert.id THEN NoMatch
        ELSE compare_experts(new_expert, existing_experts[i])]

\* [raised, matches]: raised when a comparison raises, else the matches
\* sorted by score
find_duplicate_candidates(new_expert, existing_experts) ==
    LET collected(results) ==
            IF \E i \in 1..Len(results) : results[i].kind = "raised"
            THEN [raised |-> TRUE, matches |-> <<>>]
            ELSE [raised |-> FALSE,
                  matches |-> SortByScore(SelectSeq(results,
                                            LAMBDA m : m.kind = "match"))]
    IN collected(CompareAll(new_expert, existing_experts))

(***************************************************************************)
(* The store (create_database.py).  db is a record of tables:              *)
(*   experts   : id -> Expert row, the domain being the existing ids        *)
(*   sources   : sequence of ExpertSource rows in insertion order           *)
(*   userEdits : set of UserEdit rows                                       *)
(*   emails    : set of Email rows [id, content], content unique            *)
(*   logs      : sequence of IngestionLog rows with their entries           *)
(*   scanned   : the outlook_message_id of the ScannedEmail rows (one       *)
(*               project is modelled)                                        *)
(*   scanRuns  : sequence of ScanRun rows                                    *)
(*   foreignKeys : whether the connection enforces foreign keys, so that    *)
(*                 ON DELETE CASCADE acts; the code never sets the pragma    *)
(*                 and the outcome depends on the SQLite build               *)
(***************************************************************************)
ExpertRow(id, name, employer, title, status) ==
    [id |-> id, canonicalName |-> name, canonicalEmployer |-> employer,
     canonicalTitle |-> title, status |-> status,
     conflictStatus |-> None, conflictId |-> None, aiScreeningGrade |-> None]

EmptyDb(fk) ==
    [experts |-> <<>>, sources |-> <<>>, userEdits |-> {}, emails |-> {},
     logs |-> <<>>, scanned |-> {}, scanRuns |-> <<>>, nextExpertId |-> 1, nextEmailId |-> 1, foreignKeys |-> fk]

ExpertIds(d) == DOMAIN d.experts

RECURSIVE SetToSeqDesc(_)
\* the ids of S, largest first
SetToSeqDesc(S) ==
    IF S = {} THEN <<>>
    ELSE LET m == CHOOSE x \in S : \A y \in S : y <= x
         IN <<m>> \o SetToSeqDesc(S \ {m})

\* experts.list_experts: ORDER BY createdAt DESC, the newest row first
list_experts(d) ==
    LET ids == SetToSeqDesc(ExpertIds(d))
    IN [i \in 1..Len(ids) |-> d.experts[ids[i]]]

\* experts.create_expert
create_expert(d, name, employer, title, status) ==
    LET id == d.nextExpertId
    IN [d EXCEPT !.experts = [x \in ExpertIds(d) \cup {id} |->
                                IF x = id THEN ExpertRow(id, name, employer, title, status)
                                ELSE d.experts[x]],
                 !.nextExpertId = id + 1]

\* experts.update_expert: UPDATE Expert SET ... WHERE id; no row, no change
update_expert(d, id, updates) ==
    IF id \notin ExpertIds(d) THEN d
    ELSE [d EXCEPT !.experts[id] =
            [f \in DOMAIN @ |-> IF f \in DOMAIN updates THEN updates[f] ELSE @[f]]]

\* DELETE FROM Expert WHERE id, with the cascades of the schema when the
\* connection enforces foreign keys
delete_expert(d, id) ==
    LET remaining == [x \in ExpertIds(d) \ {id} |-> d.experts[x]]
    IN IF d.foreignKeys
       THEN [d EXCEPT !.experts = remaining,
                      !.sources = SelectSeq(@, LAMBDA src : src.expertId # id),
                      !.userEdits = { e \in @ : e.expertId # id }]
       ELSE [d EXCEPT !.experts = remaining]

\* UPDATE ExpertSource SET expertId = canonical WHERE expertId = merged
reassign_sources(d, canonical_id, merged_id) ==
    [d EXCEPT !.sources =
        [i \in 1..Len(@) |-> IF @[i].expertId = merged_id
                             THEN [@[i] EXCEPT !.expertId = canonical_id]
                             ELSE @[i]]]

\* emails.create_email: a new row, or the existing row of the same content
\* hash (UNIQUE (projectId, contentHash))
create_email(d, content) ==
    IF \E e \in d.emails : e.content = content
    THEN [db |-> d, id |-> (CHOOSE e \in d.emails : e.content = content).id]
    ELSE [db |-> [d EXCEPT !.emails = @ \cup {[id |-> d.nextEmailId, content |-> content]},
                           !.nextEmailId = @ + 1],
          id |-> d.nextEmailId]

\* experts.get_expert_sources: the sources of an expert, and among them the
\* latest of a network (greatest createdAt, the last inserted)
latest_source(d, expert_id, network) ==
    LET idx == { i \in 1..Len(d.sources) :
                    d.sources[i].expertId = expert_id /\ d.sources[i].network = network }
    IN IF idx = {} THEN [found |-> FALSE]
       ELSE [found |-> TRUE, row |-> d.sources[CHOOSE i \in idx : \A j \in idx : j <= i]]

(***************************************************************************)
(* expert_dedupe.py: the Merge Resolver                                    *)
(***************************************************************************)
\* variant: the name alone is counted
completeness_score_of_name(expert) == IF Truthy(expert.canonicalName) THEN 1 ELSE 0

calculate_completeness_score(expert) ==
    (IF Truthy(expert.canonicalName) THEN 1 ELSE 0)
    + (IF Truthy(expert.canonicalEmployer) THEN 1 ELSE 0)
    + (IF Truthy(expert.canonicalTitle) THEN 1 ELSE 0)

\* variant: the first record is kept whatever the scores
canonical_of_first(expert_a, expert_b) == expert_a.id

\* the survivor chosen by merge_experts for two existing rows
canonical_of(expert_a, expert_b) ==
    IF calculate_completeness_score(expert_a) >= calculate_completeness_score(expert_b)
    THEN expert_a.id ELSE expert_b.id

\* variant: the two rows are not looked up before the statements run
merge_experts_unguarded(d, expert_id_a, expert_id_b) ==
    [raised |-> FALSE,
     db |-> delete_expert(reassign_sources(d, expert_id_a, expert_id_b), expert_id_b),
     canonical_id |-> expert_id_a]

\* merge_experts run without interruption: [raised, db, canonical_id]
merge_experts(d, expert_id_a, expert_id_b) ==
    IF expert_id_a \notin ExpertIds(d) \/ expert_id_b \notin ExpertIds(d)
    THEN [raised |-> TRUE, db |-> d, canonical_id |-> 0]
    ELSE LET canonical_id == canonical_of(d.experts[expert_id_a], d.experts[expert_id_b])
             merged_id == IF canonical_id = expert_id_a THEN expert_id_b ELSE expert_id_a
         IN [raised |-> FALSE,
             db |-> delete_expert(reassign_sources(d, canonical_id, merged_id), merged_id),
             canonical_id |-> canonical_id]

(***************************************************************************)
(* auto_ingestion.py: the Ingestion Orchestrator                           *)
(*                                                                         *)
(* An extracted profile is a record [fullName, employer, title,            *)
(* conflictStatus, conflictId, availabilityWindows, screenerResponses,      *)
(* statusCue]; the optional fields are None when absent, statusCue is       *)
(* NoCue when absent.                                                       *)
(***************************************************************************)
NoCue == "no_cue"

\* status_mapping of _update_existing_expert
status_mapping(cue) ==
    CASE cue \in {"available", "interested"} -> "recommended"
      [] cue = "pending" -> "pending"
      [] cue \in {"declined", "conflict", "not_a_fit", "no_longer_available"} -> "declined"
      [] OTHER -> NoCue

RECURSIVE InsertByName(_, _)
InsertByName(row, sorted) ==
    IF sorted = <<>> THEN <<row>>
    ELSE IF TextLess(row.canonicalName, Head(sorted).canonicalName) THEN <<row>> \o sorted
    ELSE <<Head(sorted)>> \o InsertByName(row, Tail(sorted))

RECURSIVE SortByName(_)
SortByName(rows) ==
    IF rows = <<>> THEN <<>>
    ELSE LET n == Len(rows)
         IN InsertByName(rows[n], SortByName(SubSeq(rows, 1, n - 1)))

RECURSIVE SetToSeqAsc(_)
SetToSeqAsc(S) ==
    IF S = {} THEN <<>>
    ELSE LET m == CHOOSE x \in S : \A y \in S : x <= y
         IN <<m>> \o SetToSeqAsc(S \ {m})

\* experts.find_experts_by_name: LOWER(canonicalName) LIKE LOWER('%name%')
\* ORDER BY canonicalName; rows of the same name come in insertion order.
\* The names of the model hold no LIKE wildcard (% or _).
find_experts_by_name(d, name) ==
    LET rows(ids) == [i \in 1..Len(ids) |-> d.experts[ids[i]]]
    IN SortByName(rows(SetToSeqAsc({ id \in ExpertIds(d) :
                    Contains(Lower(d.experts[id].canonicalName), Lower(name)) })))

RECURSIVE FirstMatching(_, _)
FirstMatching(name, matches) ==
    IF matches = <<>> THEN [found |-> FALSE]
    ELSE LET taken(match_name) ==
                 IF match_name = name THEN TRUE
                 ELSE FracGT(string_similarity(name, match_name), Frac(9, 10))
         IN IF taken(normalize_name(Head(matches).canonicalName))
            THEN [found |-> TRUE, row |-> Head(matches)]
            ELSE FirstMatching(name, Tail(matches))

\* _find_matching_expert: the matched row, if any
find_matching_expert(d, extracted) ==
    FirstMatching(normalize_name(extracted.fullName),
                  find_experts_by_name(d, extracted.fullName))

\* variant: the UserEdit rows are not read
get_user_edited_fields_none(d, expert_id) == {}

\* _get_user_edited_fields
get_user_edited_fields(d, expert_id) ==
    { e.fieldName : e \in { x \in d.userEdits : x.expertId = expert_id } }

\* _create_expert_source: the INSERT INTO ExpertSource
create_expert_source(d, expert_id, email_id, extracted, network) ==
    [d EXCEPT !.sources = Append(@,
        [expertId |-> expert_id, emailId |-> email_id, network |-> network,
         extractedScreener |-> IF extracted.screenerResponses = None
                                  \/ extracted.screenerResponses = <<>>
                               THEN None ELSE extracted.screenerResponses,
         extractedAvailability |-> IF extracted.availabilityWindows = None
                                      \/ extracted.availabilityWindows = <<>>
                                   THEN None
                                   ELSE Join(extracted.availabilityWindows, <<",", " ">>),
         extractedStatusCue |-> extracted.statusCue])]

\* _create_expert: [db, expert], expert being the dict create_expert returns
create_expert_from(d, extracted, email_id, network) ==
    LET id == d.nextExpertId
        d1 == create_expert(d, extracted.fullName, extracted.employer,
                            extracted.title, "recommended")
        d2 == IF Truthy(extracted.conflictStatus)
              THEN update_expert(d1, id,
                       [conflictStatus |-> extracted.conflictStatus,
                        conflictId |-> extracted.conflictId])
              ELSE d1
    IN [db |-> create_expert_source(d2, id, email_id, extracted, network),
        expert |-> d1.experts[id]]

\* one global field of _update_existing_expert: does the extraction change it
field_changes(new_value, old_value, field_name, user_edits) ==
    /\ is_meaningful_value(new_value)
    /\ ~values_are_equal(new_value, old_value)
    /\ field_name \notin user_edits

\* the status derived from the cue, when it differs from the stored one
status_changes(extracted, existing, user_edits) ==
    /\ extracted.statusCue # NoCue
    /\ extracted.statusCue # "unknown"
    /\ status_mapping(extracted.statusCue) # NoCue
    /\ "status" \notin user_edits
    /\ status_mapping(extracted.statusCue) # existing.status

\* the value the extraction carries for a global field
extracted_value(extracted, field_name) ==
    CASE field_name = "canonicalEmployer" -> extracted.employer
      [] field_name = "canonicalTitle"    -> extracted.title
      [] field_name = "conflictStatus"    -> extracted.conflictStatus
      [] field_name = "conflictId"        -> extracted.conflictId
      [] field_name = "status"            -> status_mapping(extracted.statusCue)

\* the global fields the extraction changes, in the order the code tests them
changed_global_fields(existing, extracted, user_edits) ==
    SelectSeq(<<"canonicalEmployer", "canonicalTitle", "conflictStatus", "conflictId">>,
              LAMBDA field_name :
                  field_changes(extracted_value(extracted, field_name),
                                existing[field_name], field_name, user_edits))
    \o (IF status_changes(extracted, existing, user_edits)
        THEN <<"status">> ELSE <<>>)

\* the network-scoped fields reported as updated
changed_network_fields(d, existing, extracted, network) ==
    LET existing_availability(latest) ==
            IF latest.found THEN latest.row.extractedAvailability ELSE None
        existing_screener(latest) ==
            IF latest.found THEN latest.row.extractedScreener ELSE None
        windows   == extracted.availabilityWindows
        responses == extracted.screenerResponses
        changed(latest) ==
            (IF /\ availability_changed(existing_availability(latest), windows)
                /\ windows # None
                /\ \E i \in 1..Len(windows) : is_meaningful_value(windows[i])
             THEN <<"availability">> ELSE <<>>)
            \o (IF /\ screener_responses_changed(existing_screener(latest), responses)
                   /\ responses # None
                   /\ Len(responses) > 0
                THEN <<"screenerResponses">> ELSE <<>>)
    IN changed(latest_source(d, existing.id, network))

\* the key of a global field in previous_values and new_values
value_key(field_name) ==
    CASE field_name = "canonicalEmployer" -> "employer"
      [] field_name = "canonicalTitle"    -> "title"
      [] OTHER                            -> field_name

\* the UPDATE of _update_existing_expert: the changed global fields, globals,
\* written
apply_global_changes(d, existing, extracted, globals) ==
    LET names == { globals[i] : i \in 1..Len(globals) }
    IN IF names # {}
       THEN update_expert(d, existing.id, [f \in names |-> extracted_value(extracted, f)])
       ELSE d

\* variant: the ExpertSource is appended only when a field changed
record_update_when_changed(d1, existing, extracted, email_id, network, globals) ==
    LET names == { globals[i] : i \in 1..Len(globals) }
        keys  == { value_key(f) : f \in names }
        field_of(k) == CHOOSE f \in names : value_key(f) = k
        result(fields) ==
            [db |-> IF fields # <<>>
                    THEN create_expert_source(d1, existing.id, email_id, extracted, network)
                    ELSE d1,
             updated_fields  |-> [i \in 1..Len(fields) |-> format_changed_field(fields[i])],
             previous_values |-> [k \in keys |-> existing[field_of(k)]],
             new_values      |-> [k \in keys |-> extracted_value(extracted, field_of(k))]]
    IN result(globals \o changed_network_fields(d1, existing, extracted, network))

\* _update_existing_expert from the UPDATE on, d1 being the store after it:
\* [db, updated_fields, previous_values, new_values]
record_update(d1, existing, extracted, email_id, network, globals) ==
    LET names == { globals[i] : i \in 1..Len(globals) }
        keys  == { value_key(f) : f \in names }
        field_of(k) == CHOOSE f \in names : value_key(f) = k
        result(fields) ==
            [db |-> create_expert_source(d1, existing.id, email_id, extracted, network),
             updated_fields  |-> [i \in 1..Len(fields) |-> format_changed_field(fields[i])],
             previous_values |-> [k \in keys |-> existing[field_of(k)]],
             new_values      |-> [k \in keys |-> extracted_value(extracted, field_of(k))]]
    IN result(globals \o changed_network_fields(d1, existing, extracted, network))

\* _update_existing_expert once the changed global fields, globals, are known
update_existing_with(d, existing, extracted, email_id, network, globals) ==
    record_update(apply_global_changes(d, existing, extracted, globals),
                  existing, extracted, email_id, network, globals)

\* _update_existing_expert
update_existing_expert(d, existing, extracted, email_id, network) ==
    update_existing_with(d, existing, extracted, email_id, network,
        changed_global_fields(existing, extracted,
                              get_user_edited_fields(d, existing.id)))

NoChanges == [added |-> <<>>, updated |-> <<>>, merged |-> <<>>, needsReview |-> <<>>]

\* one iteration of the loop of Step 3 for a profile whose match is known;
\* step is [db, changes, created_experts] before it and the result after it
commit_matched(step, extracted, email_id, network, match) ==
    LET updated(r) ==
            [step EXCEPT
                !.db = r.db,
                !.changes = IF r.updated_fields # <<>>
                            THEN [step.changes EXCEPT !.updated = Append(@,
                                    [expertId |-> match.row.id,
                                     expertName |-> match.row.canonicalName,
                                     fieldsUpdated |-> r.updated_fields,
                                     previousValues |-> r.previous_values,
                                     newValues |-> r.new_values])]
                            ELSE step.changes]
        created(r) ==
            [db |-> r.db,
             changes |-> [step.changes EXCEPT !.added = Append(@,
                            [expertId |-> r.expert.id,
                             expertName |-> r.expert.canonicalName])],
             created_experts |-> Append(step.created_experts, r.expert)]
    IN IF match.found
       THEN updated(update_existing_expert(step.db, match.row, extracted,
                                           email_id, network))
       ELSE created(create_expert_from(step.db, extracted, email_id, network))

RECURSIVE commit_profiles(_, _, _, _)
\* Step 3 of auto_ingest, the loop over result.experts:
\* [db, changes, created_experts]
commit_profiles(step, profiles, email_id, network) ==
    IF profiles = <<>> THEN step
    ELSE commit_profiles(
            commit_matched(step, Head(profiles), email_id, network,
                           find_matching_expert(step.db, Head(profiles))),
            Tail(profiles), email_id, network)

\* variant: every candidate is taken to reach the threshold
meets_threshold_always(score, auto_merge_threshold) == TRUE

\* candidate.score >= auto_merge_threshold
meets_threshold(score, auto_merge_threshold) == FracGEQ(score, auto_merge_threshold)

\* variant: the exception of a failed merge leaves the post-pass
merge_failed_raises(step, entry) == [step EXCEPT !.raised = TRUE]

\* the except branch around merge_experts: the pair is marked for review
merge_failed(step, entry) == [step EXCEPT !.changes.needsReview = Append(@, entry)]

RECURSIVE merge_candidates(_, _, _)
\* the loop over the candidates of one created expert; step is
\* [raised, db, changes]
merge_candidates(step, candidates, auto_merge_threshold) ==
    IF candidates = <<>> THEN step
    ELSE LET candidate == Head(candidates)
             review(reason) == [expertIdA |-> candidate.expert_id_a,
                                expertIdB |-> candidate.expert_id_b,
                                score |-> candidate.score, reason |-> reason]
             merged(m) ==
                 IF m.raised
                 THEN merge_failed(step, review("Auto-merge failed"))
                 ELSE [step EXCEPT !.db = m.db,
                                   !.changes.merged = Append(@,
                                        [keptExpertId |-> candidate.expert_id_a,
                                         mergedExpertId |-> candidate.expert_id_b,
                                         score |-> candidate.score,
                                         matchType |-> candidate.match_type])]
         IN merge_candidates(
                IF meets_threshold(candidate.score, auto_merge_threshold)
                THEN merged(merge_experts(step.db, candidate.expert_id_a,
                                          candidate.expert_id_b))
                ELSE [step EXCEPT !.changes.needsReview =
                                    Append(@, review("Below auto-merge threshold"))],
                Tail(candidates), auto_merge_threshold)

\* one iteration of the loop of Step 4: the candidates of a created expert
check_created(step, expert, all_experts, auto_merge_threshold) ==
    LET checked(found) ==
            IF found.raised THEN [step EXCEPT !.raised = TRUE]
            ELSE merge_candidates(step, found.matches, auto_merge_threshold)
    IN checked(find_duplicate_candidates(expert,
                    SelectSeq(all_experts, LAMBDA e : e.id # expert.id)))

RECURSIVE check_created_experts(_, _, _, _)
\* the loop of Step 4 over created_experts; it ends where a check raises
check_created_experts(step, created_experts, all_experts, auto_merge_threshold) ==
    IF created_experts = <<>> \/ step.raised THEN step
    ELSE check_created_experts(
            check_created(step, Head(created_experts), all_experts,
                          auto_merge_threshold),
            Tail(created_experts), all_experts, auto_merge_threshold)

\* Step 4 of auto_ingest after Step 3 gave step3; all_experts is the list
\* read once before the loop: [raised, db, changes]
post_pass(step3, auto_merge_threshold) ==
    check_created_experts([raised |-> FALSE, db |-> step3.db, changes |-> step3.changes],
                          step3.created_experts, list_experts(step3.db),
                          auto_merge_threshold)

\* ingestion_log.create_ingestion_log and its entries (Steps 7 and after)
create_ingestion_log(d, origin, email_id, changes) ==
    [d EXCEPT !.logs = Append(@, [origin |-> origin, emailId |-> email_id,
                                  entries |-> changes])]

Summary(changes, extracted_count) ==
    [addedCount |-> Len(changes.added), updatedCount |-> Len(changes.updated),
     mergedCount |-> Len(changes.merged), needsReviewCount |-> Len(changes.needsReview),
     extractedCount |-> extracted_count,
     isNoOp |-> /\ Len(changes.added) = 0 /\ Len(changes.updated) = 0
                /\ Len(changes.merged) = 0 /\ Len(changes.needsReview) = 0]

(***************************************************************************)
(* expert_extraction.py: the extraction collaborator.  email.responses     *)
(* holds what the collaborator does at its first, second and third call    *)
(* for the email: "valid" (a response that parses and validates),          *)
(* "invalid" (one that does not) or "error" (the call raises);             *)
(* email.experts are the profiles of a valid response.  The result is      *)
(* [raised, calls, experts], calls counting the collaborator calls made.   *)
(***************************************************************************)
\* _retry_extraction_with_repair: the second call; its response is parsed
\* and validated outside any try
retry_extraction_with_repair(email) ==
    IF email.responses[2] = "valid"
    THEN [raised |-> FALSE, calls |-> 2, experts |-> email.experts]
    ELSE [raised |-> TRUE, calls |-> 2, experts |-> <<>>]

\* variant: the repair is repeated until a response validates
extraction_repeated(email) ==
    LET settled == { n \in 1..Len(email.responses) : email.responses[n] # "invalid" }
        at(n) == IF email.responses[n] = "valid"
                 THEN [raised |-> FALSE, calls |-> n, experts |-> email.experts]
                 ELSE [raised |-> TRUE, calls |-> n, experts |-> <<>>]
    IN IF settled = {}
       THEN [raised |-> TRUE, calls |-> Len(email.responses), experts |-> <<>>]
       ELSE at(CHOOSE n \in settled : \A k \in settled : n <= k)

\* extract_experts_from_email: the first call is made outside the try, its
\* response is parsed and validated inside it
extract_experts_from_email(email) ==
    IF email.responses[1] = "error"
    THEN [raised |-> TRUE, calls |-> 1, experts |-> <<>>]
    ELSE IF email.responses[1] = "valid"
    THEN [raised |-> FALSE, calls |-> 1, experts |-> email.experts]
    ELSE retry_extraction_with_repair(email)

\* auto_ingest run without interruption.  email is the input: its content
\* (network and text), the responses of the extraction collaborator and the
\* profiles of a valid response.  The result is
\* [raised, db, emailId, changes, summary, extractionCalls].
auto_ingest(d, email, auto_merge_threshold, skip_log) ==
    LET created == create_email(d, email.content)
        failed(d0, calls) ==
            [raised |-> TRUE, db |-> d0, emailId |-> created.id,
             changes |-> NoChanges, summary |-> Summary(NoChanges, 0),
             extractionCalls |-> calls]
        finished(step4, result) ==
            IF step4.raised THEN failed(step4.db, result.calls)
            ELSE [raised |-> FALSE,
                  db |-> IF skip_log THEN step4.db
                         ELSE create_ingestion_log(step4.db, "auto_ingest",
                                                   created.id, step4.changes),
                  emailId |-> created.id,
                  changes |-> step4.changes,
                  summary |-> Summary(step4.changes, Len(result.experts)),
                  extractionCalls |-> result.calls]
        ingested(result) ==
            IF result.raised THEN failed(created.db, result.calls)
            ELSE finished(post_pass(
                     commit_profiles([db |-> created.db, changes |-> NoChanges,
                                      created_experts |-> <<>>],
                                     result.experts, created.id, email.content.network),
                     auto_merge_threshold), result)
    IN ingested(extract_experts_from_email(email))

(***************************************************************************)
(* Inputs: texts, extracted profiles and emails of the model               *)
(***************************************************************************)
Texts ==
    [ dea      |-> <<"A","l"," ","O","'","D","e","a">>,
      deaPlain |-> <<"A","l"," ","O","D","e","a">>,
      dey      |-> <<"A","l"," ","O","D","e","y">>,
      bo       |-> <<"B","o"," ","Y","u">>,
      acme     |-> <<"A","c","m","e">>,
      acmeInc  |-> <<"A","c","m","e"," ","I","n","c",".">>,
      apex     |-> <<"A","p","e","x">>,
      tbd      |-> <<"T","B","D">>,
      cto      |-> <<"C","T","O">>,
      ctos     |-> <<"C","T","O","s">>,
      vp       |-> <<"V","P">>,
      cleared  |-> <<"c","l","e","a","r","e","d">>,
      pending  |-> <<"p","e","n","d","i","n","g">>,
      c1       |-> <<"C","1">>,
      mon      |-> <<"M","o","n">>,
      monNine  |-> <<"M","o","n",","," ","9">>,
      yes      |-> <<"Y","e","s">>,
      cy       |-> <<"C","y"," ","X","u">>,
      di       |-> <<"D","i"," ","W","u">>,
      strong   |-> <<"s","t","r","o","n","g">> ]

Profile(name, employer, title) ==
    [fullName |-> name, employer |-> employer, title |-> title,
     conflictStatus |-> None, conflictId |-> None,
     availabilityWindows |-> None, screenerResponses |-> None,
     statusCue |-> NoCue]

\* The extracted profiles of the model, by a short key
Profiles ==
    LET profiles(t) ==
        [ dea      |-> Profile(t.dea, t.acme, t.cto),
          deaThin  |-> Profile(t.deaPlain, t.acme, None),
          deaPlain |-> Profile(t.deaPlain, t.acme, t.cto),
          deaApex  |-> [Profile(t.dea, t.apex, t.vp) EXCEPT
                            !.conflictStatus = t.cleared, !.conflictId = t.c1],
          deaDecl  |-> [Profile(t.dea, t.acme, t.cto) EXCEPT !.statusCue = "declined"],
          deaAvail |-> [Profile(t.dea, t.acmeInc, t.cto) EXCEPT
                            !.availabilityWindows = <<t.mon>>,
                            !.screenerResponses = <<t.yes>>,
                            !.conflictStatus = t.pending, !.statusCue = "unknown"],
          deaComma |-> [Profile(t.dea, t.acme, t.cto) EXCEPT
                            !.availabilityWindows = <<t.monNine>>,
                            !.statusCue = "available"],
          deaOther |-> Profile(t.deaPlain, t.apex, t.cto),
          dey      |-> Profile(t.dey, t.acme, t.cto),
          bo       |-> Profile(t.bo, None, t.vp),
          deaBare  |-> Profile(t.deaPlain, None, None) ]
    IN profiles(Texts)

\* An email of the model: content (network, text), the responses of the
\* extraction collaborator to its calls for the text, and the profiles of a
\* valid response
Email(text, network, responses, experts) ==
    [content |-> [network |-> network, text |-> text],
     responses |-> responses,
     experts |-> experts]

\* a collaborator that answers every call with a valid response
Valid == <<"valid", "valid", "valid">>

Emails ==
    LET emails(p) ==
            { Email("t-dea", "glg", Valid, <<p.dea>>),
              Email("t-thin", "glg", Valid, <<p.deaThin>>),
              Email("t-apex", "glg", Valid, <<p.deaApex>>),
              Email("t-decl", "glg", Valid, <<p.deaDecl>>),
              Email("t-avail", "tegus", Valid, <<p.deaAvail>>),
              Email("t-comma", "glg", Valid, <<p.deaComma>>),
              Email("t-other", "glg", Valid, <<p.deaOther>>),
              Email("t-dey", "glg", Valid, <<p.dey>>),
              Email("t-two", "glg", Valid, <<p.dea, p.deaPlain>>),
              Email("t-bad", "glg", <<"error", "valid", "valid">>, <<>>),
              Email("t-fix", "glg", <<"invalid", "valid", "valid">>, <<p.bo>>),
              Email("t-bad2", "glg", <<"invalid", "invalid", "valid">>, <<p.bo>>),
              Email("t-bad3", "glg", <<"invalid", "error", "valid">>, <<p.bo>>) }
    IN emails(Profiles)

\* AutoIngestRequest.autoMergeThreshold: the default
DefaultThreshold == Frac(85, 100)

\* the bodies of POST /auto-ingest: every email with the default threshold,
\* the emails whose profiles make duplicate candidates of every match type
\* with two other thresholds as well
IngestRequests ==
    { r \in [email : Emails,
             threshold : {DefaultThreshold, Frac(75, 100), Frac(1, 1)}] :
        \/ r.threshold = DefaultThreshold
        \/ r.email.content.text \in {"t-other", "t-dey", "t-two"} }

\* the fields a user edits through PATCH /experts/{id}, and values for them
UserValues ==
    LET values(t) ==
            [ canonicalEmployer |-> t.apex, canonicalTitle |-> t.vp,
              conflictStatus |-> t.pending, conflictId |-> None,
              status |-> "interviewed" ]
    IN values(Texts)

(***************************************************************************)
(* Bounds of the model                                                     *)
(***************************************************************************)
MaxIngests == 2
MaxEdits   == 1
MaxScans   == 2
MaxMerges  == 1
MaxAppends == 1
MaxScreens == 2

(***************************************************************************)
(* State                                                                   *)
(***************************************************************************)
VARIABLES
    db,        \* the store
    ingests,   \* number of auto-ingest requests served
    edits,     \* number of PATCH /experts requests served
    last,      \* the last request served: its input, the store before it
               \* and its result
    scan,      \* the running or last scan_inbox call: position and locals
    scans,     \* number of scan_inbox calls started
    attempts,  \* per message id: how often a scan entered its try block
    handed,    \* per message id: how often a scan called auto_ingest for it
    errored,   \* the message ids a scan recorded with status "error"
    merge,     \* a merge_experts call run statement by statement
    merges,    \* number of such calls started
    append,    \* an ingestion updating a matched expert, run statement by
               \* statement
    appends,   \* number of such ingestions started
    patch,     \* a PATCH /experts request run statement by statement
    screening, \* the running or last screen-all request: position and tasks
    screens    \* number of screen-all requests started

vars == <<db, ingests, edits, last, scan, scans, attempts, handed, errored,
          merge, merges, append, appends, patch, screening, screens>>

scanVars == <<scan, scans, attempts, handed, errored>>
reqVars  == <<ingests, edits, last>>
concVars == <<merge, merges, append, appends, patch>>
screenVars == <<screening, screens>>

(***************************************************************************)
(* Requests of expert_networks.py served without interruption              *)
(***************************************************************************)
\* POST /projects/{id}/auto-ingest
AutoIngestRequest(email, threshold) ==
    /\ ingests < MaxIngests
    /\ scan.pc \in {"idle", "returned", "raised"}
    /\ merge.pc \in {"idle", "returned", "raised"}
    /\ append.pc \in {"idle", "returned", "raised"}
    /\ \E r \in {auto_ingest(db, email, threshold, FALSE)} :
          /\ db' = r.db
          /\ last' = [op |-> "ingest", email |-> email, threshold |-> threshold,
                      before |-> db, raised |-> r.raised,
                      changes |-> r.changes, summary |-> r.summary,
                      extractionCalls |-> r.extractionCalls]
    /\ ingests' = ingests + 1
    /\ UNCHANGED <<screenVars, edits, scanVars, concVars>>

\* PATCH /experts/{expert_id} with one field: the UserEdit row, then the
\* update of the Expert row; 404 and no write when the expert is missing
patch_expert(d, expert_id, field_name, value) ==
    IF expert_id \notin ExpertIds(d) THEN d
    ELSE update_expert(
            [d EXCEPT !.userEdits = @ \cup {[expertId |-> expert_id,
                                            fieldName |-> field_name,
                                            userValue |-> value]}],
            expert_id, [f \in {field_name} |-> value])

UpdateExpertRequest(expert_id, field_name) ==
    /\ edits < MaxEdits
    /\ scan.pc \in {"idle", "returned", "raised"}
    /\ db' = patch_expert(db, expert_id, field_name, UserValues[field_name])
    /\ last' = [op |-> "edit", before |-> db]
    /\ edits' = edits + 1
    /\ UNCHANGED <<screenVars, ingests, scanVars, concVars>>

\* POST /duplicates/{candidate_id}/merge for a candidate (expert_id_a,
\* expert_id_b): merge_experts run without interruption; the route answers
\* 500 when it raises
MergeRequest(expert_id_a, expert_id_b) ==
    /\ merges < MaxMerges
    /\ merge.pc \in {"idle", "returned", "raised"}
    /\ scan.pc \in {"idle", "returned", "raised"}
    /\ expert_id_a # expert_id_b
    /\ \E r \in {merge_experts(db, expert_id_a, expert_id_b)} :
          /\ db' = r.db
          /\ last' = [op |-> "merge", expert_id_a |-> expert_id_a,
                      expert_id_b |-> expert_id_b, before |-> db,
                      raised |-> r.raised, canonical_id |-> r.canonical_id]
    /\ merges' = merges + 1
    /\ UNCHANGED <<screenVars, patch, ingests, edits, scanVars, merge, append, appends>>

(***************************************************************************)
(* outlook_scanning.py: the Batch Scan Coordinator                         *)
(***************************************************************************)
\* variant: a call binds whatever keywords it passes
binds_any_keyword(keywords, params, required) == TRUE

\* A call binds when every keyword it passes is a parameter of the callee and
\* every parameter without a default is passed; otherwise Python raises
\* TypeError at the call.
Binds(keywords, params, required) ==
    keywords \subseteq params /\ required \subseteq keywords

\* parameters of AutoIngestionService.auto_ingest and the keywords scan_inbox
\* passes to it
AutoIngestParams ==
    {"db", "project_id", "email_text", "network", "project_hypothesis",
     "screener_config", "auto_merge_threshold", "skip_log"}
AutoIngestRequired ==
    {"db", "project_id", "email_text", "network", "project_hypothesis",
     "screener_config"}
ScanAutoIngestKeywords ==
    {"db", "project_id", "email_text", "network", "project_hypothesis",
     "screener_config", "skip_log", "scan_created_expert_ids"}

\* parameters of scan_runs.create_scan_run and the keywords scan_inbox passes
CreateScanRunParams   == {"db", "project_id", "max_emails"}
ScanCreateRunKeywords == {"db", "project_id", "max_emails", "sender_domains", "keywords"}

\* parameters of scan_runs.complete_scan_run and the keywords scan_inbox passes
CompleteScanRunParams ==
    {"db", "scan_run_id", "status", "experts_added", "experts_updated",
     "experts_merged", "ingestion_log_id", "error_message", "error_details"}
CompleteScanRunRequired == {"db", "scan_run_id", "status"}
ScanCompleteRunKeywords ==
    {"db", "scan_run_id", "messages_processed", "messages_skipped",
     "messages_failed", "experts_added", "experts_updated", "experts_merged",
     "added_experts", "updated_experts", "skipped_reasons", "errors",
     "processed_details", "ingestion_log_id"}

\* scan_runs.create_scan_run: the INSERT of a row in status "running"
create_scan_run(d) == [d EXCEPT !.scanRuns = Append(@, [status |-> "running"])]

\* scan_runs.complete_scan_run: the UPDATE of the row with the status passed
complete_scan_run(d, scan_run_id, status, counters) ==
    [d EXCEPT !.scanRuns[scan_run_id] = [status |-> status, counters |-> counters]]

\* scanned_emails.record_scanned_email: INSERT OR REPLACE on the unique
\* (project_id, outlook_message_id)
record_scanned_email(d, message_id) == [d EXCEPT !.scanned = @ \cup {message_id}]

\* A message of the inbox: whether it passes the sender-domain/keyword
\* filter, the body list_messages delivers ("adequate", "short": under 50
\* characters, "missing"), what get_message_body then gives ("adequate",
\* "short", "fails") and the email text it carries
Message(id, passes, body, fetch, email) ==
    [id |-> id, passes |-> passes, body |-> body, fetch |-> fetch, email |-> email]

\* The inbox, newest message first
Inbox ==
    LET inbox(p) ==
        << Message("m1", TRUE, "adequate", "adequate", Email("t-dea", "glg", Valid, <<p.dea>>)),
           Message("m2", TRUE, "adequate", "adequate", Email("t-dea-fwd", "glg", Valid, <<p.dea>>)),
           Message("m3", TRUE, "missing", "fails", Email("t-bo", "glg", Valid, <<p.bo>>)),
           Message("m4", TRUE, "short", "short", Email("t-short", "glg", Valid, <<>>)),
           Message("m5", FALSE, "adequate", "adequate", Email("t-news", "glg", Valid, <<>>)),
           Message("m6", TRUE, "missing", "adequate", Email("t-bad", "glg", <<"error", "valid", "valid">>, <<>>)),
           Message("m7", TRUE, "adequate", "adequate", Email("t-bare", "glg", Valid, <<p.deaBare>>)) >>
    IN inbox(Profiles)

MessageIds ==
    LET ids(inbox) == { inbox[i].id : i \in 1..Len(inbox) }
    IN ids(Inbox)

\* what the environment does to the steps before the processing loop
Connections == {"active", "none", "refresh_fails", "fetch_fails"}

\* variant: the already scanned messages are kept in the batch
new_messages_kept(filtered_messages, scanned_ids) == filtered_messages

\* the messages of the filtered batch whose id has no ScannedEmail row
new_messages_of(filtered_messages, scanned_ids) ==
    SelectSeq(filtered_messages, LAMBDA m : m.id \notin scanned_ids)

\* scan_inbox up to the processing loop: the ScanRun row, the connection and
\* the token, the fetch, the filters and the drop of already scanned messages
ScanStart(max_emails, connection) ==
    /\ scan.pc \in {"idle", "returned", "raised"}
    /\ scans < MaxScans
    /\ scans' = scans + 1
    /\ \E messages \in {SubSeq(Inbox, 1, max_emails)} :
       LET binds == Binds(ScanCreateRunKeywords, CreateScanRunParams, CreateScanRunParams)
           d1 == IF binds THEN create_scan_run(db) ELSE db
           scan_run_record == IF binds THEN Len(d1.scanRuns) ELSE 0
           scanned_ids == d1.scanned
           filtered_messages == SelectSeq(messages, LAMBDA m : m.passes)
           new_messages == new_messages_of(filtered_messages, scanned_ids)
           already_scanned_count == Len(filtered_messages) - Len(new_messages)
           base == [max_emails |-> max_emails, scan_run_record |-> scan_run_record,
                    filtered |-> [i \in 1..Len(filtered_messages) |-> filtered_messages[i].id],
                    scanned_ids |-> scanned_ids, db_before |-> db,
                    new_messages |-> [i \in 1..Len(new_messages) |-> new_messages[i].id],
                    results |-> <<>>, skipped_count |-> already_scanned_count,
                    scan_created_expert_ids |-> {}]
       IN /\ db' = d1
          /\ scan' =
               IF connection # "active"
               THEN [base EXCEPT !.filtered = <<>>, !.new_messages = <<>>,
                                 !.skipped_count = 0]
                    @@ [pc |-> "raised", reason |-> connection]
               ELSE IF new_messages = <<>>
               THEN base @@ [pc |-> "returned", early |-> TRUE,
                             emailsProcessed |-> 0, errorCount |-> 0,
                             changes |-> NoChanges]
               ELSE base @@ [pc |-> "processing"]
    /\ UNCHANGED <<screenVars, reqVars, concVars, attempts, handed, errored>>

\* variant: no body is too short
body_too_short_never(body) == FALSE

\* not email_text or len(email_text.strip()) < 50
body_too_short(body) == body = "short"

\* variant: the except branch writes no ScannedEmail row
record_failure_dropped(d, message_id) == d

\* the except branch of the loop: the message is recorded with status "error"
record_failure(d, message_id) == record_scanned_email(d, message_id)

MessageOf(id) ==
    LET message(inbox) == inbox[CHOOSE i \in 1..Len(inbox) : inbox[i].id = id]
    IN message(Inbox)

\* one iteration of the processing loop of scan_inbox
ScanProcessMessage ==
    /\ scan.pc = "processing"
    /\ Len(scan.results) < Len(scan.new_messages)
    /\ \E msg \in {MessageOf(scan.new_messages[Len(scan.results) + 1])} :
       LET fetch_raises == msg.body = "missing" /\ msg.fetch = "fails"
           body == IF msg.body = "missing" THEN msg.fetch ELSE msg.body
           binds == Binds(ScanAutoIngestKeywords, AutoIngestParams, AutoIngestRequired)
           error(d) == /\ db' = record_failure(d, msg.id)
                       /\ scan' = [scan EXCEPT !.results =
                                      Append(@, [status |-> "error", msg |-> msg.id,
                                                 changes |-> NoChanges])]
                       /\ errored' = errored \cup {msg.id}
       IN /\ attempts' = [attempts EXCEPT ![msg.id] = @ + 1]
          /\ IF fetch_raises
             THEN error(db) /\ UNCHANGED handed
             ELSE IF body_too_short(body)
             THEN /\ scan' = [scan EXCEPT !.results =
                                Append(@, [status |-> "skipped", msg |-> msg.id,
                                           changes |-> NoChanges])]
                  /\ UNCHANGED <<db, handed, errored>>
             ELSE /\ handed' = [handed EXCEPT ![msg.id] = @ + 1]
                  /\ IF ~binds THEN error(db)
                     ELSE \E r \in {auto_ingest(db, msg.email, DefaultThreshold, TRUE)} :
                          IF r.raised THEN error(r.db)
                          ELSE /\ db' = record_scanned_email(r.db, msg.id)
                               /\ scan' = [scan EXCEPT
                                     !.results = Append(@, [status |-> "success",
                                                            msg |-> msg.id,
                                                            changes |-> r.changes]),
                                     !.scan_created_expert_ids = @ \cup
                                         { r.changes.added[i].expertId :
                                             i \in 1..Len(r.changes.added) }]
                               /\ UNCHANGED errored
    /\ UNCHANGED <<screenVars, reqVars, concVars, scans>>

RECURSIVE AggregateChanges(_)
\* the changes of the successful results, concatenated in order
AggregateChanges(results) ==
    IF results = <<>> THEN NoChanges
    ELSE LET rest == AggregateChanges(Tail(results))
             c == Head(results).changes
         IN IF Head(results).status = "success"
            THEN [added |-> c.added \o rest.added,
                  updated |-> c.updated \o rest.updated,
                  merged |-> c.merged \o rest.merged,
                  needsReview |-> c.needsReview \o rest.needsReview]
            ELSE rest

\* variant: the too-short messages of the loop are not counted as skipped
CountStatusButSkipped(results, status) ==
    IF status = "skipped" THEN 0
    ELSE Cardinality({ i \in 1..Len(results) : results[i].status = status })

CountStatus(results, status) ==
    Cardinality({ i \in 1..Len(results) : results[i].status = status })

\* scan_inbox after the loop: aggregation, the unified ingestion log, the
\* completion of the ScanRun row and the returned result
ScanFinish ==
    /\ scan.pc = "processing"
    /\ Len(scan.results) = Len(scan.new_messages)
    /\ LET emails_processed == CountStatus(scan.results, "success")
           skipped_count == scan.skipped_count + CountStatus(scan.results, "skipped")
           error_count == CountStatus(scan.results, "error")
           all_changes == AggregateChanges(scan.results)
           d1 == IF emails_processed > 0
                 THEN create_ingestion_log(db, "outlook_scan", 0,
                          [all_changes EXCEPT !.needsReview = <<>>])
                 ELSE db
           binds == Binds(ScanCompleteRunKeywords, CompleteScanRunParams,
                          CompleteScanRunRequired)
           d2 == IF scan.scan_run_record # 0 /\ binds
                 THEN complete_scan_run(d1, scan.scan_run_record, "unset",
                          [experts_added |-> Len(all_changes.added),
                           experts_updated |-> Len(all_changes.updated),
                           experts_merged |-> Len(all_changes.merged)])
                 ELSE d1
       IN /\ db' = d2
          /\ scan' = [scan EXCEPT !.pc = "returned", !.skipped_count = skipped_count]
                     @@ [early |-> FALSE, emailsProcessed |-> emails_processed,
                         errorCount |-> error_count, changes |-> all_changes]
    /\ UNCHANGED <<screenVars, reqVars, concVars, scans, attempts, handed, errored>>


(***************************************************************************)
(* Concurrent requests: merge_experts and _update_existing_expert run      *)
(* statement by statement.  Every await of a handler lets another request  *)
(* run; no statement of the code opens a transaction.                      *)
(***************************************************************************)
\* the ids a merge may be called with
MergeIds == 1..3

\* merge_experts is called for the pair (expert_id_a, expert_id_b)
MergeStart(expert_id_a, expert_id_b) ==
    /\ merge.pc \in {"idle", "returned", "raised"}
    /\ merges < MaxMerges
    /\ expert_id_a # expert_id_b
    /\ merge' = [pc |-> "fetch_a", expert_id_a |-> expert_id_a,
                 expert_id_b |-> expert_id_b]
    /\ merges' = merges + 1
    /\ UNCHANGED <<screenVars, patch, db, reqVars, scanVars, append, appends>>

\* SELECT * FROM Expert WHERE id = expert_id_a
MergeFetchA ==
    /\ merge.pc = "fetch_a"
    /\ merge' = [merge EXCEPT !.pc = "fetch_b"]
                @@ [found_a |-> merge.expert_id_a \in ExpertIds(db),
                    expert_a |-> IF merge.expert_id_a \in ExpertIds(db)
                                 THEN db.experts[merge.expert_id_a]
                                 ELSE ExpertRow(0, None, None, None, "none")]
    /\ UNCHANGED <<screenVars, patch, db, reqVars, scanVars, merges, append, appends>>

\* SELECT * FROM Expert WHERE id = expert_id_b, the ValueError when a row is
\* missing, and the choice of the survivor
MergeFetchB ==
    /\ merge.pc = "fetch_b"
    /\ IF ~merge.found_a \/ merge.expert_id_b \notin ExpertIds(db)
       THEN merge' = [pc |-> "raised"]
       ELSE LET canonical_id == canonical_of(merge.expert_a, db.experts[merge.expert_id_b])
            IN merge' = [pc |-> "reassign", canonical_id |-> canonical_id,
                         merged_id |-> IF canonical_id = merge.expert_id_a
                                       THEN merge.expert_id_b ELSE merge.expert_id_a]
    /\ UNCHANGED <<screenVars, patch, db, reqVars, scanVars, merges, append, appends>>

\* UPDATE ExpertSource SET expertId = canonical_id WHERE expertId = merged_id
MergeReassign ==
    /\ merge.pc = "reassign"
    /\ db' = reassign_sources(db, merge.canonical_id, merge.merged_id)
    /\ merge' = [merge EXCEPT !.pc = "delete"]
    /\ UNCHANGED <<screenVars, patch, reqVars, scanVars, merges, append, appends>>

\* DELETE FROM Expert WHERE id = merged_id
MergeDelete ==
    /\ merge.pc = "delete"
    /\ db' = delete_expert(db, merge.merged_id)
    /\ merge' = [merge EXCEPT !.pc = "returned"]
    /\ UNCHANGED <<screenVars, patch, reqVars, scanVars, merges, append, appends>>

\* An ingestion up to the UPDATE of _update_existing_expert: the Email row,
\* the match of the profile with an existing record, the read of the
\* user-edited fields and, from the row read at the match, the fields to
\* change
AppendStart(email) ==
    /\ append.pc \in {"idle", "returned", "raised"}
    /\ appends < MaxAppends
    /\ \E created \in {create_email(db, email.content)} :
       \E match \in {find_matching_expert(created.db, email.experts[1])} :
          /\ match.found
          /\ db' = created.db
          /\ append' = [pc |-> "update", expert_id |-> match.row.id,
                        existing |-> match.row,
                        globals |-> changed_global_fields(match.row, email.experts[1],
                                        get_user_edited_fields(created.db, match.row.id)),
                        email_id |-> created.id, email |-> email]
    /\ appends' = appends + 1
    /\ UNCHANGED <<screenVars, patch, reqVars, scanVars, merge, merges>>

\* the UPDATE of _update_existing_expert: the fields chosen at the read are
\* written, whatever the row holds by now
AppendUpdate ==
    /\ append.pc = "update"
    /\ db' = apply_global_changes(db, append.existing, append.email.experts[1],
                                  append.globals)
    /\ append' = [append EXCEPT !.pc = "insert"]
    /\ UNCHANGED <<screenVars, patch, reqVars, scanVars, merge, merges, appends>>

\* the INSERT INTO ExpertSource of _create_expert_source; a connection that
\* enforces foreign keys rejects a row whose expert is gone
AppendSource ==
    /\ append.pc = "insert"
    /\ IF db.foreignKeys /\ append.expert_id \notin ExpertIds(db)
       THEN /\ append' = [append EXCEPT !.pc = "raised"]
            /\ UNCHANGED db
       ELSE /\ db' = create_expert_source(db, append.expert_id, append.email_id,
                                          append.email.experts[1],
                                          append.email.content.network)
            /\ append' = [append EXCEPT !.pc = "returned"]
    /\ UNCHANGED <<screenVars, patch, reqVars, scanVars, merge, merges, appends>>

\* PATCH /experts/{expert_id} with one field, up to its UPDATE: the read of
\* the expert (404 when missing) and the INSERT of the UserEdit row
PatchStart(expert_id, field_name) ==
    /\ patch.pc \in {"idle", "returned", "raised"}
    /\ edits < MaxEdits
    /\ edits' = edits + 1
    /\ IF expert_id \notin ExpertIds(db)
       THEN /\ patch' = [pc |-> "raised", expert_id |-> expert_id,
                         field_name |-> field_name]
            /\ UNCHANGED db
       ELSE /\ db' = [db EXCEPT !.userEdits = @ \cup
                        {[expertId |-> expert_id, fieldName |-> field_name,
                          userValue |-> UserValues[field_name]]}]
            /\ patch' = [pc |-> "update", expert_id |-> expert_id,
                         field_name |-> field_name]
    /\ UNCHANGED <<screenVars, ingests, last, scanVars, merge, merges, append, appends>>

\* the UPDATE of the Expert row that ends the PATCH
PatchUpdate ==
    /\ patch.pc = "update"
    /\ db' = update_expert(db, patch.expert_id,
                 [f \in {patch.field_name} |-> UserValues[patch.field_name]])
    /\ patch' = [patch EXCEPT !.pc = IF patch.expert_id \in ExpertIds(db)
                                     THEN "returned" ELSE "raised"]
    /\ UNCHANGED <<screenVars, reqVars, scanVars, merge, merges, append, appends>>

(***************************************************************************)
(* expert_networks.py: POST /projects/{id}/screen-all.  The request makes  *)
(* one task per selected expert and gathers them; a task holds the          *)
(* semaphore from before its collaborator call until its result is set.     *)
(* screening.task gives each selected expert's task: "waiting" for the      *)
(* semaphore, "calling" the screening collaborator, "screened" or "failed". *)
(***************************************************************************)
\* asyncio.Semaphore(5)
SemaphoreLimit == 5

\* variant: the semaphore admits every task
semaphore_free_always(held) == TRUE

\* the semaphore admits a task while fewer than its limit hold it
semaphore_free(held) == held < SemaphoreLimit

\* the tasks that hold the semaphore: their collaborator call is in flight
InFlight == { id \in DOMAIN screening.task : screening.task[id] = "calling" }

\* screen_all_experts up to asyncio.gather: the experts of the project, the
\* selection, and the early return when nothing is selected
ScreenStart(force) ==
    /\ screens < MaxScreens
    /\ screening.pc \in {"idle", "returned"}
    /\ scan.pc \in {"idle", "returned", "raised"}
    /\ screens' = screens + 1
    /\ \E all_experts \in {list_experts(db)} :
       LET experts_to_screen ==
               IF force THEN all_experts
               ELSE SelectSeq(all_experts, LAMBDA e : ~Truthy(e.aiScreeningGrade))
           selected == { experts_to_screen[i].id : i \in 1..Len(experts_to_screen) }
       IN screening' =
            IF experts_to_screen = <<>>
            THEN [pc |-> "returned", total |-> Len(all_experts), selected |-> {},
                  task |-> <<>>, screened |-> 0, failed |-> 0,
                  skipped |-> Len(all_experts)]
            ELSE [pc |-> "gathering", total |-> Len(all_experts),
                  selected |-> selected, task |-> [id \in selected |-> "waiting"]]
    /\ UNCHANGED <<db, reqVars, scanVars, concVars>>

\* screen_one_expert enters "async with semaphore" and calls screen_expert
ScreenAcquire(expert_id) ==
    /\ screening.pc = "gathering"
    /\ expert_id \in screening.selected
    /\ screening.task[expert_id] = "waiting"
    /\ semaphore_free(Cardinality(InFlight))
    /\ screening' = [screening EXCEPT !.task[expert_id] = "calling"]
    /\ UNCHANGED <<db, screens, reqVars, scanVars, concVars>>

\* the collaborator answers or raises: the grade is written with
\* update_expert, or the except branch gives the failure; the semaphore is
\* released
ScreenRespond(expert_id, success) ==
    /\ screening.pc = "gathering"
    /\ expert_id \in screening.selected
    /\ screening.task[expert_id] = "calling"
    /\ IF success
       THEN /\ db' = update_expert(db, expert_id,
                                   [aiScreeningGrade |-> Texts.strong])
            /\ screening' = [screening EXCEPT !.task[expert_id] = "screened"]
       ELSE /\ screening' = [screening EXCEPT !.task[expert_id] = "failed"]
            /\ UNCHANGED db
    /\ UNCHANGED <<screens, reqVars, scanVars, concVars>>

\* asyncio.gather has every result: the counts of the response
ScreenGather ==
    /\ screening.pc = "gathering"
    /\ \A id \in screening.selected : screening.task[id] \in {"screened", "failed"}
    /\ screening' =
         [screening EXCEPT !.pc = "returned"]
         @@ [screened |-> Cardinality({ id \in screening.selected :
                                            screening.task[id] = "screened" }),
             failed |-> Cardinality({ id \in screening.selected :
                                          screening.task[id] = "failed" }),
             skipped |-> screening.total - Cardinality(screening.selected)]
    /\ UNCHANGED <<db, screens, reqVars, scanVars, concVars>>

\* the records the Similarity Engine is applied to: every name, employer and
\* title of the model, the employer and the title also missing
CompareRows(id) ==
    LET rows(t) ==
            { ExpertRow(id, name, employer, title, "recommended") :
                name \in {t.dea, t.deaPlain, t.dey, t.bo},
                employer \in {None, t.acme, t.acmeInc, t.apex},
                title \in {None, t.cto, t.ctos, t.vp} }
    IN rows(Texts)

\* _compare_experts applied to a pair of records in both orders
CompareRequest(expert_a, expert_b) ==
    /\ last' = [op |-> "compare", expert_a |-> expert_a, expert_b |-> expert_b,
                forward |-> compare_experts(expert_a, expert_b),
                backward |-> compare_experts(expert_b, expert_a)]
    /\ UNCHANGED <<db, ingests, edits, scanVars, concVars, screenVars>>

\* an email that introduces six experts of different names
ProjectEmail ==
    LET email(t, p) ==
            Email("t-six", "glg", Valid,
                  << p.dea, p.deaPlain, p.dey, p.bo,
                     Profile(t.cy, t.acme, t.vp), Profile(t.di, t.apex, t.cto) >>)
    IN email(Texts, Profiles)

(***************************************************************************)
(* Specifications                                                          *)
(***************************************************************************)
Init ==
    /\ db \in {EmptyDb(TRUE), EmptyDb(FALSE)}
    /\ ingests = 0
    /\ edits = 0
    /\ last = [op |-> "none"]
    /\ scan = [pc |-> "idle"]
    /\ scans = 0
    /\ attempts = [m \in MessageIds |-> 0]
    /\ handed = [m \in MessageIds |-> 0]
    /\ errored = {}
    /\ merge = [pc |-> "idle"]
    /\ merges = 0
    /\ append = [pc |-> "idle"]
    /\ appends = 0
    /\ patch = [pc |-> "idle"]
    /\ screening = [pc |-> "idle"]
    /\ screens = 0

\* the requests of the ingestion API, one at a time
NextIngest ==
    \/ \E req \in IngestRequests : AutoIngestRequest(req.email, req.threshold)
    \/ \E expert_id \in ExpertIds(db), field_name \in DOMAIN UserValues :
            UpdateExpertRequest(expert_id, field_name)

SpecIngest == Init /\ [][NextIngest]_vars

\* inbox scans, one at a time
NextScan ==
    \/ \E max_emails \in 1..Len(Inbox), connection \in Connections :
            ScanStart(max_emails, connection)
    \/ ScanProcessMessage
    \/ ScanFinish

SpecScan == Init /\ [][NextScan]_vars

\* a merge and an ingestion interleaved statement by statement, after the
\* requests that set up two records of one person
NextConc ==
    \/ \E email \in { e \in Emails : e.content.text \in {"t-dea", "t-thin", "t-other"} } :
            AutoIngestRequest(email, DefaultThreshold)
    \/ \E a \in MergeIds, b \in MergeIds : MergeStart(a, b)
    \/ MergeFetchA
    \/ MergeFetchB
    \/ MergeReassign
    \/ MergeDelete
    \/ \E email \in { e \in Emails : Len(e.experts) = 1 /\ e.responses = Valid } :
            AppendStart(email)
    \/ AppendUpdate
    \/ AppendSource

SpecConc == Init /\ [][NextConc]_vars

\* merges requested one at a time on records that ingestions created; the
\* threshold 1 leaves every duplicate candidate for review
NextMerge ==
    \/ \E email \in { e \in Emails : Len(e.experts) = 1 /\ e.responses = Valid } :
            AutoIngestRequest(email, Frac(1, 1))
    \/ \E a \in MergeIds, b \in MergeIds : MergeRequest(a, b)

SpecMerge == Init /\ [][NextMerge]_vars

\* screen-all requests on a project that one ingestion filled
NextScreen ==
    \/ (screens = 0 /\ ingests = 0 /\ AutoIngestRequest(ProjectEmail, Frac(1, 1)))
    \/ \E force \in BOOLEAN : ScreenStart(force)
    \/ \E expert_id \in ExpertIds(db) : ScreenAcquire(expert_id)
    \/ \E expert_id \in ExpertIds(db), success \in BOOLEAN :
            ScreenRespond(expert_id, success)
    \/ ScreenGather

SpecScreen == Init /\ [][NextScreen]_vars

\* the Similarity Engine on pairs of records: a pair is drawn, then compared
InitCompare ==
    /\ db = EmptyDb(TRUE)
    /\ ingests = 0
    /\ edits = 0
    /\ \E expert_a \in CompareRows(1), expert_b \in CompareRows(2) :
            last = [op |-> "pair", expert_a |-> expert_a, expert_b |-> expert_b]
    /\ scan = [pc |-> "idle"]
    /\ scans = 0
    /\ attempts = [m \in MessageIds |-> 0]
    /\ handed = [m \in MessageIds |-> 0]
    /\ errored = {}
    /\ merge = [pc |-> "idle"]
    /\ merges = 0
    /\ append = [pc |-> "idle"]
    /\ appends = 0
    /\ patch = [pc |-> "idle"]
    /\ screening = [pc |-> "idle"]
    /\ screens = 0

NextCompare ==
    /\ last.op = "pair"
    /\ CompareRequest(last.expert_a, last.expert_b)

SpecCompare == InitCompare /\ [][NextCompare]_vars

\* a user edit and an ingestion that updates the same record, interleaved
\* statement by statement, after the ingestion that creates the record
NextEdit ==
    \/ ingests = 0 /\ \E email \in { e \in Emails : e.content.text = "t-dea" } :
            AutoIngestRequest(email, DefaultThreshold)
    \/ \E email \in { e \in Emails : e.content.text \in {"t-apex", "t-decl"} } :
            AppendStart(email)
    \/ AppendUpdate
    \/ AppendSource
    \/ \E expert_id \in 1..2, field_name \in DOMAIN UserValues :
            PatchStart(expert_id, field_name)
    \/ PatchUpdate

SpecEdit == Init /\ [][NextEdit]_vars

Next == NextIngest \/ NextScan \/ NextConc \/ NextMerge \/ NextScreen \/ NextCompare
            \/ NextEdit

Spec == Init /\ [][Next]_vars

(***************************************************************************)
(* Properties                                                              *)
(***************************************************************************)
Range(seq) == { seq[i] : i \in 1..Len(seq) }

\* C1: across scans run one after another every message id is handed to the
\* Ingestion Orchestrator at most once; a message that has a ScannedEmail row
\* when a scan starts is not among the messages the scan processes and is
\* counted as skipped.
C1_HandedAtMostOnce ==
    /\ \A m \in MessageIds : handed[m] <= 1
    /\ scan.pc \in {"processing", "returned"} =>
        /\ \A i \in 1..Len(scan.new_messages) :
                scan.new_messages[i] \notin scan.scanned_ids
        /\ scan.skipped_count >=
                Cardinality({ i \in 1..Len(scan.filtered) :
                                scan.filtered[i] \in scan.scanned_ids })

\* a later scan has met a message that an earlier scan handed over, and
\* skipped it
C1_Witness ==
    /\ scan.pc = "returned"
    /\ \E m \in Range(scan.filtered) :
        /\ handed[m] = 1
        /\ m \in scan.scanned_ids
        /\ m \notin Range(scan.new_messages)
    /\ scan.skipped_count >= 1

\* C2: when the processing of a message throws (body fetch, extraction or
\* ingestion), the scan has written the ScannedEmail row of the message, and
\* no later scan attempts the message again.
C2_FailureRecorded ==
    /\ errored \subseteq db.scanned
    /\ \A m \in errored : attempts[m] = 1

\* a scan has returned that met, and left out, a message whose processing
\* threw in an earlier scan
C2_Witness ==
    /\ scan.pc = "returned"
    /\ scans = 2
    /\ \E m \in errored :
        /\ m \in scan.scanned_ids
        /\ m \in Range(scan.filtered)
        /\ m \notin Range(scan.new_messages)
        /\ attempts[m] = 1

\* the records of the store that carry the name of a profile
RecordsNamed(d, name) ==
    { id \in ExpertIds(d) :
        normalize_name(d.experts[id].canonicalName) = normalize_name(name) }

\* C3: when two messages of one batch each introduce the same unknown
\* expert, the second message's match finds the record created by the first:
\* once the scan has returned, one ExpertRecord of that expert exists.
C3_SecondMessageMatchesFirst ==
    ( /\ scan.pc = "returned"
      /\ {"m1", "m2"} \subseteq Range(scan.new_messages)
      /\ RecordsNamed(scan.db_before, Texts.dea) = {} )
    => Cardinality(RecordsNamed(db, Texts.dea)) = 1

\* the last request served was an ingestion that returned its result
Ingested == last.op = "ingest" /\ ~last.raised

\* C4: ingesting an email whose profiles are identical to profiles already
\* ingested adds nothing, updates nothing, is a no-op and changes no field of
\* any ExpertRecord, whatever status cue, conflict status, availability
\* windows or screener responses the profiles carry.
C4_ReIngestIsNoOp ==
    ( /\ Ingested
      /\ last.email.experts # <<>>
      /\ \E e \in Emails, previous \in last.before.emails :
            /\ previous.id = last.before.nextEmailId - 1
            /\ e.content = previous.content
            /\ e.experts = last.email.experts )
    =>
        /\ last.summary.addedCount = 0
        /\ last.summary.updatedCount = 0
        /\ last.summary.isNoOp
        /\ db.experts = last.before.experts

\* C5: once a UserEdit exists for a field of an ExpertRecord, no later
\* ingestion changes the stored value of the field or lists the field among
\* the updated fields, whatever value the extraction carries.
C5_UserEditsKept ==
    last.op = "ingest" =>
        \A e \in last.before.userEdits :
            /\ e.expertId \in ExpertIds(db) =>
                  db.experts[e.expertId][e.fieldName]
                      = last.before.experts[e.expertId][e.fieldName]
            /\ \A i \in 1..Len(last.changes.updated) :
                  last.changes.updated[i].expertId = e.expertId =>
                      format_changed_field(e.fieldName)
                          \notin Range(last.changes.updated[i].fieldsUpdated)

\* an ingestion has matched a record with a user-edited field and carried a
\* meaningful, different value for that field
C5_Witness ==
    /\ Ingested
    /\ \E e \in last.before.userEdits :
        \E i \in 1..Len(last.email.experts) :
            LET match == find_matching_expert(last.before, last.email.experts[i])
            IN /\ match.found
               /\ match.row.id = e.expertId
               /\ e.expertId \in ExpertIds(db)
               /\ e.fieldName \in
                    Range(changed_global_fields(match.row, last.email.experts[i], {}))

\* C6: each ExpertSource refers to an existing ExpertRecord, and a source
\* appended by an ingestion concurrent with a merge is neither left pointing
\* at the deleted record nor removed.
C6_SourcesAttached ==
    /\ \A i \in 1..Len(db.sources) : db.sources[i].expertId \in ExpertIds(db)
    /\ append.pc = "returned" =>
            \E i \in 1..Len(db.sources) : db.sources[i].emailId = append.email_id

\* the messages of the batch at hand on which a collaborator (body fetch,
\* extraction) throws
ThrowingMessages ==
    { m \in Range(scan.new_messages) :
        LET msg == MessageOf(m)
        IN \/ (msg.body = "missing" /\ msg.fetch = "fails")
           \/ extract_experts_from_email(msg.email).raised }

\* C7: a failure on one message does not keep the others from being
\* processed: of a batch of N new messages with adequate bodies of which k
\* throw, the scan reports N - k processed and k failed.
C7_FailuresContained ==
    ( /\ scan.pc = "returned"
      /\ scan.new_messages # <<>>
      /\ \A m \in Range(scan.new_messages) :
            /\ MessageOf(m).body # "short"
            /\ MessageOf(m).body = "missing" => MessageOf(m).fetch # "short" )
    => /\ scan.emailsProcessed = Len(scan.new_messages) - Cardinality(ThrowingMessages)
       /\ scan.errorCount = Cardinality(ThrowingMessages)

\* C8: a scan that got past fetching has its ScanRun, finalized with status
\* completed, also when no message was new; no ScanRun is in status running
\* once the scan has returned.
C8_ScanRunFinalized ==
    scan.pc = "returned" =>
        /\ scan.scan_run_record # 0
        /\ db.scanRuns[scan.scan_run_record].status = "completed"
        /\ \A i \in 1..Len(db.scanRuns) : db.scanRuns[i].status # "running"

\* C9: the ScanRun of a scan ends failed exactly when the scan could not
\* start (no connection, token refresh failure, inbox fetch failure).
C9_FailedIffNotStarted ==
    /\ scan.pc = "raised" =>
        /\ scan.scan_run_record # 0
        /\ db.scanRuns[scan.scan_run_record].status = "failed"
    /\ (scan.pc = "returned" /\ scan.scan_run_record # 0) =>
        db.scanRuns[scan.scan_run_record].status # "failed"

\* the ids of the records a request removed
Deleted ==
    (ExpertIds(last.before) \cup
        { last.changes.added[i].expertId : i \in 1..Len(last.changes.added) })
    \ ExpertIds(db)

AtThreshold(entry) == FracGEQ(entry.score, last.threshold)

CreatedRow(i) ==
    ExpertRow(last.before.nextExpertId + i - 1, last.email.experts[i].fullName,
              last.email.experts[i].employer, last.email.experts[i].title,
              "recommended")

\* the last request was an ingestion that created a record for each of the
\* two profiles of its email, and the two records are duplicate candidates
\* at the threshold: the post-pass merges the pair for the first record and,
\* for the second, attempts the mirrored pair, one record of which is gone
MirroredPairAttempted ==
    /\ last.op = "ingest"
    /\ Len(last.email.experts) = 2
    /\ db.nextExpertId = last.before.nextExpertId + 2
    /\ \E m \in {compare_experts(CreatedRow(2), CreatedRow(1))} :
          /\ m.kind = "match"
          /\ FracGEQ(m.score, last.threshold)

Merged == last.op = "merge" /\ ~last.raised

\* number of non-empty fields among name, employer and title
NonEmptyFields(row) ==
    Cardinality({ f \in {"canonicalName", "canonicalEmployer", "canonicalTitle"} :
                    row[f] # None /\ row[f] # <<>> })

\* C12: merge(A, B) keeps the record with the higher completeness score and
\* A on a tie; afterwards every ExpertSource of A or B belongs to the
\* survivor, the loser is gone, and the survivor and every other record and
\* source are unchanged.
C12_MergeKeepsMoreComplete ==
    Merged =>
        LET keep == IF NonEmptyFields(last.before.experts[last.expert_id_a])
                          >= NonEmptyFields(last.before.experts[last.expert_id_b])
                    THEN last.expert_id_a ELSE last.expert_id_b
            lose == IF keep = last.expert_id_a THEN last.expert_id_b
                    ELSE last.expert_id_a
        IN /\ last.canonical_id = keep
           /\ ExpertIds(db) = ExpertIds(last.before) \ {lose}
           /\ \A id \in ExpertIds(db) : db.experts[id] = last.before.experts[id]
           /\ Len(db.sources) = Len(last.before.sources)
           /\ \A i \in 1..Len(db.sources) :
                 db.sources[i] =
                    IF last.before.sources[i].expertId \in {keep, lose}
                    THEN [last.before.sources[i] EXCEPT !.expertId = keep]
                    ELSE last.before.sources[i]

\* a merge has kept its second record, the more complete one, and moved a
\* source of the first to it
C12_Witness ==
    /\ Merged
    /\ last.canonical_id = last.expert_id_b
    /\ NonEmptyFields(last.before.experts[last.expert_id_a])
          < NonEmptyFields(last.before.experts[last.expert_id_b])
    /\ \E i \in 1..Len(db.sources) :
          /\ last.before.sources[i].expertId = last.expert_id_a
          /\ db.sources[i].expertId = last.expert_id_b

\* name, employer and title of the record a merge result keeps
SurvivingValues(r) ==
    [f \in {"canonicalName", "canonicalEmployer", "canonicalTitle"} |->
        r.db.experts[r.canonical_id][f]]

\* the merge of the last request with its two records exchanged, from the
\* same state
MergeExchanged == merge_experts(last.before, last.expert_id_b, last.expert_id_a)

\* C13 as stated: merging (A, B) and merging (B, A) from the same state
\* leave the same surviving name, employer and title, also when the two
\* records have equal completeness scores and different field values.
C13_MergeOrderIrrelevant ==
    Merged =>
        SurvivingValues([db |-> db, canonical_id |-> last.canonical_id])
            = SurvivingValues(MergeExchanged)

\* C13: merging (A, B) and merging (B, A) from the same state keep the same
\* record when the completeness scores differ; on a tie each order keeps its
\* first record, so the surviving values are the same only if the two
\* records hold the same values.
C13_MergeOrderOnTie ==
    Merged =>
        LET a == last.before.experts[last.expert_id_a]
            b == last.before.experts[last.expert_id_b]
        IN IF NonEmptyFields(a) # NonEmptyFields(b)
           THEN /\ MergeExchanged.canonical_id = last.canonical_id
                /\ SurvivingValues([db |-> db, canonical_id |-> last.canonical_id])
                      = SurvivingValues(MergeExchanged)
           ELSE /\ last.canonical_id = last.expert_id_a
                /\ MergeExchanged.canonical_id = last.expert_id_b
                /\ SurvivingValues(MergeExchanged)
                      = [f \in {"canonicalName", "canonicalEmployer", "canonicalTitle"}
                            |-> b[f]]

\* two records of equal completeness and different names have been merged
C13_Witness ==
    /\ Merged
    /\ NonEmptyFields(last.before.experts[last.expert_id_a])
          = NonEmptyFields(last.before.experts[last.expert_id_b])
    /\ last.before.experts[last.expert_id_a].canonicalName
          # last.before.experts[last.expert_id_b].canonicalName
    /\ db.experts[last.canonical_id].canonicalName
          # SurvivingValues(MergeExchanged).canonicalName

\* C14: merge(A, B) where A or B does not exist fails with the not-found
\* error and leaves every ExpertRecord, every ExpertSource and every other
\* row unchanged.
C14_MergeMissingNoMutation ==
    ( /\ last.op = "merge"
      /\ \/ last.expert_id_a \notin ExpertIds(last.before)
         \/ last.expert_id_b \notin ExpertIds(last.before) )
    => /\ last.raised
       /\ db = last.before

\* a merge was requested for an existing record with sources and a missing
\* one, in either position
C14_Witness ==
    /\ last.op = "merge"
    /\ last.raised
    /\ \E x \in {last.expert_id_a, last.expert_id_b} :
          /\ x \in ExpertIds(last.before)
          /\ \E i \in 1..Len(db.sources) : db.sources[i].expertId = x
    /\ last.expert_id_b \notin ExpertIds(last.before)

\* C15: the Change Detector reports a field as updated only if the new
\* value is meaningful and not valuesAreEqual to the old one; if
\* valuesAreEqual(old, new) holds for every field it reports no field; and it
\* never reports a field whose old and new values both normalize to absent.
\* The old value of a network-scoped field is that of the record's latest
\* source of the network, the new value is in the form the store would hold
\* it; a status is one of the status names, and screener responses are
\* lists of answers, equal as lists.
C15_ChangesAreMaterial ==
    \A match \in {IF Ingested /\ Len(last.email.experts) = 1
                   THEN find_matching_expert(last.before, last.email.experts[1])
                   ELSE [found |-> FALSE]} :
      (Ingested /\ Len(last.email.experts) = 1 /\ match.found) =>
        LET DetectedFields ==
                {"canonicalEmployer", "canonicalTitle", "conflictStatus",
                 "conflictId", "status", "availability", "screenerResponses"}
            extracted == last.email.experts[1]
            OldOf(latest, f) ==
                CASE f = "availability" ->
                        IF latest.found THEN latest.row.extractedAvailability ELSE None
                  [] f = "screenerResponses" ->
                        IF latest.found THEN latest.row.extractedScreener ELSE None
                  [] OTHER -> match.row[f]
            old(f) == OldOf(latest_source(last.before, match.row.id,
                                          last.email.content.network), f)
            new(f) ==
                CASE f = "availability" ->
                        IF extracted.availabilityWindows = None
                              \/ extracted.availabilityWindows = <<>>
                        THEN None
                        ELSE Join(extracted.availabilityWindows, <<",", " ">>)
                  [] f = "screenerResponses" ->
                        IF extracted.screenerResponses = None
                              \/ extracted.screenerResponses = <<>>
                        THEN None ELSE extracted.screenerResponses
                  [] OTHER -> extracted_value(extracted, f)
            FieldEqual(f) ==
                CASE f = "status" -> old(f) = new(f)
                  [] f = "screenerResponses" ->
                        IF new(f) = None THEN old(f) = None
                        ELSE IF old(f) = None THEN FALSE
                        ELSE old(f) = new(f)
                  [] OTHER -> values_are_equal(old(f), new(f))
            FieldMeaningful(f) ==
                CASE f = "status"            -> new(f) # NoCue
                  [] f = "screenerResponses" -> new(f) # None
                  [] OTHER                   -> is_meaningful_value(new(f))
            FlaggedFields ==
                UNION { Range(last.changes.updated[i].fieldsUpdated) :
                            i \in 1..Len(last.changes.updated) }
            flagged(f) == format_changed_field(f) \in FlaggedFields
        IN /\ \A f \in DetectedFields :
                flagged(f) => /\ FieldMeaningful(f)
                              /\ ~FieldEqual(f)
           /\ (\A f \in DetectedFields : FieldEqual(f)) => FlaggedFields = {}
           /\ \A f \in DetectedFields \ {"screenerResponses", "status"} :
                (normalize_value(old(f)) = None /\ normalize_value(new(f)) = None)
                    => ~flagged(f)

\* C16: an ingestion appends no ExpertSource that links a record to an email
\* which an earlier ExpertSource already links to that record, also when the
\* email content was ingested before; and the record link of an existing
\* ExpertSource changes only when a merge reassigns it.
C16_OneSourcePerExpertAndEmail ==
    (last.op = "edit" \/ (Ingested /\ last.changes.merged = <<>>)) =>
        /\ \A j \in (Len(last.before.sources) + 1)..Len(db.sources) :
              \A i \in 1..(j - 1) :
                 <<db.sources[i].expertId, db.sources[i].emailId>>
                    # <<db.sources[j].expertId, db.sources[j].emailId>>
        /\ [i \in 1..Len(last.before.sources) |-> db.sources[i].expertId]
             = [i \in 1..Len(last.before.sources) |->
                    last.before.sources[i].expertId]

\* C17: for one email the extraction collaborator is called at most twice; a
\* first response that does not validate is followed by exactly one repair
\* call, and when that response does not validate either, or the call
\* raises, the ingestion fails and creates, updates and merges no
\* ExpertRecord.
C17_OneRepairRetry ==
    last.op = "ingest" =>
        /\ last.extractionCalls \in {1, 2}
        /\ last.extractionCalls = IF last.email.responses[1] = "invalid" THEN 2 ELSE 1
        /\ (last.email.responses[1] = "invalid" /\ last.email.responses[2] # "valid") =>
              /\ last.raised
              /\ db.experts = last.before.experts
              /\ db.sources = last.before.sources
              /\ db.logs = last.before.logs
        /\ (last.email.responses[1] = "invalid" /\ last.email.responses[2] = "valid") =>
              last.summary.extractedCount = Len(last.email.experts)

\* an ingestion has failed after an invalid first response and an invalid
\* repair, on an email a third call would have extracted a new profile from
C17_Witness ==
    /\ last.op = "ingest"
    /\ last.raised
    /\ last.extractionCalls = 2
    /\ last.email.responses = <<"invalid", "invalid", "valid">>
    /\ last.email.experts # <<>>
    /\ ~find_matching_expert(last.before, last.email.experts[1]).found

\* C18: during bulk screening at most 5 screening collaborator calls are in
\* flight; a failed screening leaves the other selected experts to be
\* screened, each selected expert ending screened (its grade written) or
\* failed; screened + failed is the number of experts selected and
\* screened + failed + skipped the number of experts of the project.
C18_BoundedIndependentScreening ==
    /\ screening.pc \in {"gathering", "returned"} => Cardinality(InFlight) <= 5
    /\ screening.pc = "returned" =>
          /\ \A id \in screening.selected :
                /\ screening.task[id] \in {"screened", "failed"}
                /\ screening.task[id] = "screened" =>
                      db.experts[id].aiScreeningGrade = Texts.strong
          /\ screening.screened + screening.failed = Cardinality(screening.selected)
          /\ screening.screened + screening.failed + screening.skipped
                = Cardinality(ExpertIds(db))

\* a screening of a project of six experts has returned with an expert
\* skipped, an expert failed and an expert screened
C18_Witness ==
    /\ screening.pc = "returned"
    /\ screening.total = 6
    /\ screening.skipped >= 1
    /\ screening.failed >= 1
    /\ screening.screened >= 1

\* C19: a scan run that processed a message writes exactly one ingestion
\* log, the aggregated one, and no per-message log; the aggregated log holds
\* an entry for every added, updated, merged and needsReview change of the
\* run's result.
C19_OneAggregatedLog ==
    ( /\ scan.pc = "returned"
      /\ \E m \in Range(scan.new_messages) \ ThrowingMessages :
            "short" \notin {MessageOf(m).body, MessageOf(m).fetch} )
    => /\ Len(db.logs) = Len(scan.db_before.logs) + 1
       /\ db.logs[Len(db.logs)].origin = "outlook_scan"
       /\ db.logs[Len(db.logs)].entries = scan.changes

\* C20: comparing record A with B yields a candidate exactly when comparing
\* B with A does, with the same score and the same match type, the two ids
\* exchanged; a comparison that raises does so in both orders.  This holds
\* for all pairs, also with a missing employer or title.
C20_SimilaritySymmetric ==
    last.op = "compare" =>
        /\ last.forward.kind = last.backward.kind
        /\ last.forward.kind = "match" =>
              /\ last.forward.score.num * last.backward.score.den
                    = last.backward.score.num * last.forward.score.den
              /\ last.forward.match_type = last.backward.match_type
              /\ last.forward.expert_id_a = last.backward.expert_id_b
              /\ last.forward.expert_id_b = last.backward.expert_id_a

\* two records of one name, one of them without employer, with titles of
\* different lengths, have been compared and are a candidate
C20_Witness ==
    /\ last.op = "compare"
    /\ last.forward.kind = "match"
    /\ last.expert_a.canonicalEmployer = None
    /\ last.expert_b.canonicalEmployer # None
    /\ Len(last.expert_a.canonicalTitle) < Len(last.expert_b.canonicalTitle)

\* C21: a profile is matched at create time whenever a record of the project
\* has the profile's normalized name or a name similarity above 0.9 to it,
\* whichever spelling was ingested first; no ExpertRecord is then created
\* for the profile.
C21_MatchedByNormalizedName ==
    (Ingested /\ Len(last.email.experts) = 1) =>
        LET name == normalize_name(last.email.experts[1].fullName)
            alike(id) ==
                \/ normalize_name(last.before.experts[id].canonicalName) = name
                \/ FracGT(string_similarity(
                              name,
                              normalize_name(last.before.experts[id].canonicalName)),
                          Frac(9, 10))
        IN (\E id \in ExpertIds(last.before) : alike(id)) =>
              /\ last.changes.added = <<>>
              /\ db.nextExpertId = last.before.nextExpertId

\* C22: a newly created ExpertRecord has status "recommended" when its
\* profile has no status cue or the cue is unknown, and otherwise the status
\* the fixed table of the update path maps the cue to.
C22_CreatedStatusFromCue ==
    (Ingested /\ Len(last.email.experts) = 1 /\ last.changes.added # <<>>) =>
        LET cue == last.email.experts[1].statusCue
        IN db.experts[last.changes.added[1].expertId].status
              = IF cue \in {NoCue, "unknown"} THEN "recommended"
                ELSE status_mapping(cue)

\* C23: an ingestion appends exactly one ExpertSource per extracted profile
\* and takes one branch per profile: a matched profile gets its source on
\* the matched record also with no field change, and an "updated" entry only
\* with updated fields; an unmatched profile creates one record with its
\* source and one "added" entry.  So addedCount plus the number of matched
\* profiles is extractedCount, and updatedCount is at most the number of
\* matched profiles.
C23_OneSourceOneBranch ==
    (Ingested /\ Len(last.email.experts) \in 1..2) =>
        LET profiles == last.email.experts
            n == Len(profiles)
            first == find_matching_expert(last.before, profiles[1])
            \* the records the second profile is matched against
            mid == IF first.found THEN last.before
                   ELSE create_expert(last.before, profiles[1].fullName,
                                      profiles[1].employer, profiles[1].title,
                                      "recommended")
            matched(i) == IF i = 1 THEN first.found
                          ELSE find_matching_expert(mid, profiles[2]).found
            matchedCount == Cardinality({ i \in 1..n : matched(i) })
            appended(i) == db.sources[Len(last.before.sources) + i]
        IN /\ Len(db.sources) = Len(last.before.sources) + n
           /\ db.nextExpertId - last.before.nextExpertId = Len(last.changes.added)
           /\ last.summary.addedCount + matchedCount = last.summary.extractedCount
           /\ last.summary.updatedCount <= matchedCount
           /\ last.summary.addedCount = Len(last.changes.added)
           /\ last.summary.updatedCount = Len(last.changes.updated)
           /\ last.summary.extractedCount = n
           /\ \A i \in 1..Len(last.changes.updated) :
                 last.changes.updated[i].fieldsUpdated # <<>>
           /\ (n = 1 /\ first.found) =>
                 /\ appended(1).expertId = first.row.id
                 /\ db.experts[first.row.id] # last.before.experts[first.row.id]
                       => last.changes.updated # <<>>
           /\ (n = 1 /\ ~first.found /\ last.changes.merged = <<>>) =>
                 /\ appended(1).expertId = last.before.nextExpertId
                 /\ last.changes.added[1].expertId = last.before.nextExpertId
                 /\ last.before.nextExpertId \in ExpertIds(db)

\* an ingestion has matched its profile, changed no field, emitted no
\* "updated" entry and appended the profile's source to the matched record
C23_Witness ==
    /\ Ingested
    /\ Len(last.email.experts) = 1
    /\ last.changes = NoChanges
    /\ Len(db.sources) = Len(last.before.sources) + 1
    /\ db.experts = last.before.experts
    /\ db.sources[Len(db.sources)].expertId \in ExpertIds(last.before)

C25_MergeKeepsUserEdits ==
    Ingested =>
        \A j \in 1..Len(last.changes.merged) :
            LET pair == {last.changes.merged[j].keptExpertId,
                         last.changes.merged[j].mergedExpertId}
            IN \A e \in { x \in last.before.userEdits : x.expertId \in pair } :
                  \E s \in pair \cap ExpertIds(db) :
                      /\ db.experts[s][e.fieldName] = e.userValue
                      /\ \E x \in db.userEdits :
                            /\ x.expertId = s
                            /\ x.fieldName = e.fieldName
                            /\ x.userValue = e.userValue

\* C26: a user edit that pins a field while an ingestion updates the same
\* record is not overwritten: once the PATCH and the ingestion's UPDATE are
\* both done, in any order of their statements, the field holds the user's
\* value.
C26_ConcurrentEditKept ==
    ( /\ patch.pc = "returned"
      /\ append.pc \in {"insert", "returned"}
      /\ append.expert_id = patch.expert_id )
    => db.experts[patch.expert_id][patch.field_name] = UserValues[patch.field_name]

\* C27: every "merged" entry of an ingestion names as keptExpertId the
\* record that exists after the merge and as mergedExpertId the record that
\* was retired, whichever of the two the completeness rule kept.
C27_MergedEntryNamesSurvivor ==
    Ingested =>
        \A j \in 1..Len(last.changes.merged) :
            /\ last.changes.merged[j].keptExpertId \in ExpertIds(db)
            /\ last.changes.merged[j].mergedExpertId \notin ExpertIds(db)

\* C28: a message whose body is under the minimum length is classified
\* skipped without a call of the ingestion (and so of the extraction
\* collaborator) and without a change of the store; no ScannedEmail row is
\* written for it, so a later scan that fetches it has it among its new
\* messages and skips it again.
C28_ShortMessageSkippedAgain ==
    [][LET short == { m \in MessageIds :
                        (IF MessageOf(m).body = "missing" THEN MessageOf(m).fetch
                         ELSE MessageOf(m).body) = "short" }
       IN \A m \in short :
            /\ attempts'[m] # attempts[m] => db' = db
            /\ m \notin db'.scanned
            /\ handed'[m] = 0
            /\ m \notin errored'
            /\ scan'.pc \in {"processing", "returned"} =>
                  /\ m \in Range(scan'.filtered) => m \in Range(scan'.new_messages)
                  /\ \A i \in 1..Len(scan'.results) :
                        scan'.results[i].msg = m =>
                            /\ scan'.results[i].status = "skipped"
                            /\ scan'.results[i].changes = NoChanges]_vars

\* a second scan has fetched the short message again and skipped it again
C28_Witness ==
    /\ scan.pc = "returned"
    /\ attempts["m4"] = 2
    /\ \E i \in 1..Len(scan.results) :
          scan.results[i].msg = "m4" /\ scan.results[i].status = "skipped"
    /\ "m4" \notin db.scanned

\* C29: within one ingestion each unordered pair of records is reported at
\* most once, as one merged entry or one needsReview entry, also when both
\* records were created by the same email and after one of them was retired
\* by an earlier merge of the post-pass.
C29_PairReportedOnce ==
    Ingested =>
        LET reported ==
                [j \in 1..Len(last.changes.merged) |->
                    {last.changes.merged[j].keptExpertId,
                     last.changes.merged[j].mergedExpertId}]
                \o [i \in 1..Len(last.changes.needsReview) |->
                    {last.changes.needsReview[i].expertIdA,
                     last.changes.needsReview[i].expertIdB}]
        IN \A i \in 1..Len(reported), j \in 1..Len(reported) :
              reported[i] = reported[j] => i = j

\* C30: at the end of a scan that reached the processing loop every message
\* that passed the filter is counted once, as processed, failed or skipped
\* (already scanned or too short): processed + failed + skipped is the
\* number of filtered messages.
C30_CountersCoverFiltered ==
    (scan.pc = "returned" /\ ~scan.early) =>
        /\ scan.emailsProcessed + scan.errorCount + scan.skipped_count
              = Len(scan.filtered)
        /\ \A m \in Range(scan.filtered) :
              IF m \in scan.scanned_ids
              THEN \A i \in 1..Len(scan.results) : scan.results[i].msg # m
              ELSE Cardinality({ i \in 1..Len(scan.results) :
                                    scan.results[i].msg = m }) = 1
        /\ scan.emailsProcessed
              = Cardinality({ i \in 1..Len(scan.results) :
                                scan.results[i].status = "success" })
        /\ scan.errorCount
              = Cardinality({ i \in 1..Len(scan.results) :
                                scan.results[i].status = "error" })

\* a scan has returned from its loop with an already scanned message, a
\* too-short message and a failed message among the filtered ones
C30_Witness ==
    /\ scan.pc = "returned"
    /\ ~scan.early
    /\ Range(scan.filtered) \cap scan.scanned_ids # {}
    /\ \E i \in 1..Len(scan.results) : scan.results[i].status = "skipped"
    /\ scan.errorCount >= 1
    /\ scan.skipped_count >= 2

====
